---- MODULE Spec2Model ----
(***************************************************************************)
(* Record-linkage core of MatchEng: normalizers and comparators            *)
(* (similarity.py), the rule engine and the matching pipeline              *)
(* (matching_engine.py), the dedup-key store (dedup.py), the config files   *)
(* (core/config_manager.py, app.py, blueprints/api.py), the header mapping *)
(* (app.py, file_processor.py) and the phone quality score                 *)
(* (quality_scorer.py).  Specifications: Spec (the job), SpecOrder (the    *)
(* job on reordered rows), SpecBlank (the job on files with blank rows),   *)
(* SpecStore (the store API), SpecParallel (two jobs on one store file),   *)
(* SpecRules (the rule engine called on its own), SpecConfig, SpecSettings *)
(* (SpecConfig with the settings-section update), SpecMapping, SpecStrings *)
(* (normalizers and phone quality called on their own).                    *)
(*                                                                         *)
(* Python strings are sequences of one-character strings, so that the      *)
(* normalizers work on characters as the code does; "" of Python is <<>>.  *)
(* A dedup key is a tagged pair: <<"uuid", n>> is the n-th key            *)
(* generate_dedup_key hands out, <<"raw", n>> a key the input file carries *)
(* in a DEDUP_KEY column.  Similarity scores are kept in thousandths of a  *)
(* percent (85000 is 85.000), rounded down.                                *)
(***************************************************************************)
EXTENDS Integers, Sequences, FiniteSets, TLC

\* ------------------------------------------------------------------------
\* Characters and strings
\* ------------------------------------------------------------------------

UpperChars == <<"A","B","C","D","E","F","G","H","I","J","K","L","M",
                "N","O","P","Q","R","S","T","U","V","W","X","Y","Z">>

LowerChars == <<"a","b","c","d","e","f","g","h","i","j","k","l","m",
                "n","o","p","q","r","s","t","u","v","w","x","y","z">>

DigitChars == <<"0","1","2","3","4","5","6","7","8","9">>

\* Code-point order of the characters the model uses (space < punctuation <
\* digits < upper case < "_" < lower case < "|"), as Python's sorted() uses.
CharOrder == <<" ", "(", ")", ",", "-", ".">> \o DigitChars \o UpperChars
             \o <<"_">> \o LowerChars \o <<"|">>

Range(s) == {s[n] : n \in DOMAIN s}

IndexOf(c, s) == CHOOSE n \in DOMAIN s : s[n] = c

UpperSet == Range(UpperChars)

LowerSet == Range(LowerChars)

DigitSet == Range(DigitChars)

\* \w of Python's re on str: letters, digits and the underscore
WordCharSet == UpperSet \cup LowerSet \cup DigitSet \cup {"_"}

OrdTable == [c \in Range(CharOrder) |-> IndexOf(c, CharOrder)]

LowerTable == [c \in UpperSet |-> LowerChars[IndexOf(c, UpperChars)]]

UpperTable == [c \in LowerSet |-> UpperChars[IndexOf(c, LowerChars)]]

Ord(c) == OrdTable[c]

IsDigit(c) == c \in DigitSet

IsSpace(c) == c = " "

IsWordChar(c) == c \in WordCharSet

LowerChar(c) == IF c \in UpperSet THEN LowerTable[c] ELSE c

UpperChar(c) == IF c \in LowerSet THEN UpperTable[c] ELSE c

\* str.lower() / str.upper()
Lower(s) == [n \in DOMAIN s |-> LowerChar(s[n])]

Upper(s) == [n \in DOMAIN s |-> UpperChar(s[n])]

RECURSIVE LStrip(_)
LStrip(s) == IF s # <<>> /\ IsSpace(Head(s)) THEN LStrip(Tail(s)) ELSE s

RECURSIVE RStrip(_)
RStrip(s) == IF s # <<>> /\ IsSpace(s[Len(s)]) THEN RStrip(SubSeq(s, 1, Len(s) - 1)) ELSE s

\* str.strip()
Strip(s) == RStrip(LStrip(s))

\* re.sub(r'[^\w\s]', ' ', s)
PunctToSpace(s) == [n \in DOMAIN s |-> IF IsWordChar(s[n]) \/ IsSpace(s[n]) THEN s[n] ELSE " "]

\* the positions 1..Len(s), in order
Positions(s) == [n \in DOMAIN s |-> n]

\* re.sub(r'\s+', ' ', s): of every run of spaces the first one stays
CollapseSpaces(s) ==
    LET at == SelectSeq(Positions(s),
                        LAMBDA n : ~IsSpace(s[n]) \/ n = 1 \/ ~IsSpace(s[n - 1]))
    IN  [m \in DOMAIN at |-> s[at[m]]]

\* re.sub(r'\D', '', s)
DigitsOnly(s) == SelectSeq(s, IsDigit)

\* str.split(): the maximal runs of non-space characters
Split(s) ==
    LET starts == SelectSeq(Positions(s),
                            LAMBDA n : ~IsSpace(s[n]) /\ (n = 1 \/ IsSpace(s[n - 1])))
        ends   == SelectSeq(Positions(s),
                            LAMBDA n : ~IsSpace(s[n]) /\ (n = Len(s) \/ IsSpace(s[n + 1])))
    IN  [m \in DOMAIN starts |-> SubSeq(s, starts[m], ends[m])]

\* sep.join(parts)
RECURSIVE Join(_, _)
Join(parts, sep) ==
    IF parts = <<>> THEN <<>>
    ELSE IF Len(parts) = 1 THEN parts[1]
    ELSE parts[1] \o sep \o Join(Tail(parts), sep)

\* s[:n] and s[-n:]
Prefix(s, n) == SubSeq(s, 1, IF Len(s) < n THEN Len(s) ELSE n)

Suffix(s, n) == SubSeq(s, (IF Len(s) < n THEN 1 ELSE Len(s) - n + 1), Len(s))

\* Python's order on str: a < b
RECURSIVE StrLess(_, _)
StrLess(a, b) ==
    IF b = <<>> THEN FALSE
    ELSE IF a = <<>> THEN TRUE
    ELSE IF a[1] = b[1] THEN StrLess(Tail(a), Tail(b))
    ELSE Ord(a[1]) < Ord(b[1])

\* sorted(tokens): insertion sort, stable
RECURSIVE InsertSorted(_, _)
InsertSorted(t, sorted) ==
    IF sorted = <<>> THEN <<t>>
    ELSE IF StrLess(t, Head(sorted)) THEN <<t>> \o sorted
    ELSE <<Head(sorted)>> \o InsertSorted(t, Tail(sorted))

RECURSIVE SortTokens(_)
SortTokens(tokens) ==
    IF tokens = <<>> THEN <<>>
    ELSE InsertSorted(tokens[Len(tokens)], SortTokens(SubSeq(tokens, 1, Len(tokens) - 1)))

\* ------------------------------------------------------------------------
\* similarity.py: normalizers
\* ------------------------------------------------------------------------

\* normalize_text: lower, strip, punctuation to space, collapse, strip
normalize_text(text) ==
    IF text = <<>> THEN <<>>
    ELSE Strip(CollapseSpaces(PunctToSpace(Strip(Lower(text)))))

LegalSuffixes1 == {<<"i","n","c">>,
    <<"i","n","c","o","r","p","o","r","a","t","e","d">>,
    <<"c","o","r","p">>,
    <<"c","o","r","p","o","r","a","t","i","o","n">>,
    <<"l","l","c">>,
    <<"l","t","d">>,
    <<"l","i","m","i","t","e","d">>,
    <<"c","o">>,
    <<"c","o","m","p","a","n","y">>}

LegalSuffixes2 == {<<"p","l","c">>,
    <<"l","p">>,
    <<"l","l","p">>,
    <<"p","l","l","c">>,
    <<"p","c">>,
    <<"p","a">>,
    <<"n","a">>}

Articles == {<<"t","h","e">>,
    <<"a">>,
    <<"a","n">>}

\* re.sub(r'\b(w1|w2|...)\b', '', name) on a string whose words are runs of \w
\* separated by spaces: every word in the set becomes empty, the spaces stay.
RECURSIVE RemoveWords(_, _)
RemoveWords(tokens, words) ==
    IF tokens = <<>> THEN <<>>
    ELSE (IF Head(tokens) \in words THEN <<>> ELSE <<Head(tokens)>>)
         \o RemoveWords(Tail(tokens), words)

\* normalize_company_name: normalize_text, drop the three word lists in turn,
\* then re.sub(r'\s+', ' ') and strip (the remaining words, single-spaced)
normalize_company_name(name) ==
    IF name = <<>> THEN <<>>
    ELSE Join(RemoveWords(RemoveWords(RemoveWords(Split(normalize_text(name)),
                  LegalSuffixes1), LegalSuffixes2), Articles), <<" ">>)

replacements == <<
    <<<<"s","t","r","e","e","t">>, <<"s","t">>>>,
    <<<<"a","v","e","n","u","e">>, <<"a","v","e">>>>,
    <<<<"r","o","a","d">>, <<"r","d">>>>,
    <<<<"b","o","u","l","e","v","a","r","d">>, <<"b","l","v","d">>>>,
    <<<<"d","r","i","v","e">>, <<"d","r">>>>,
    <<<<"l","a","n","e">>, <<"l","n">>>>,
    <<<<"c","o","u","r","t">>, <<"c","t">>>>,
    <<<<"p","l","a","c","e">>, <<"p","l">>>>,
    <<<<"s","u","i","t","e">>, <<"s","t","e">>>>,
    <<<<"a","p","a","r","t","m","e","n","t">>, <<"a","p","t">>>>,
    <<<<"b","u","i","l","d","i","n","g">>, <<"b","l","d","g">>>>,
    <<<<"f","l","o","o","r">>, <<"f","l">>>>,
    <<<<"n","o","r","t","h">>, <<"n">>>>,
    <<<<"s","o","u","t","h">>, <<"s">>>>,
    <<<<"e","a","s","t">>, <<"e">>>>,
    <<<<"w","e","s","t">>, <<"w">>>>>>

\* the replacements applied one after the other, each to whole words
RECURSIVE ReplaceWords(_, _)
ReplaceWords(tokens, k) ==
    IF k > Len(replacements) THEN tokens
    ELSE ReplaceWords([i \in DOMAIN tokens |->
                          IF tokens[i] = replacements[k][1] THEN replacements[k][2]
                          ELSE tokens[i]], k + 1)

\* normalize_address: normalize_text, then the word replacements
normalize_address(address) ==
    IF address = <<>> THEN <<>>
    ELSE Join(ReplaceWords(Split(normalize_text(address)), 1), <<" ">>)

\* a leading 1 dropped from every number of eleven digits or more
normalize_phone_long(phone) ==
    IF phone = <<>> THEN <<>>
    ELSE LET digits == DigitsOnly(phone)
         IN  IF Len(digits) >= 11 /\ digits[1] = "1" THEN Tail(digits) ELSE digits

\* normalize_phone: digits only, a leading 1 of an 11-digit number dropped
normalize_phone(phone) ==
    IF phone = <<>> THEN <<>>
    ELSE LET digits == DigitsOnly(phone)
         IN  IF Len(digits) = 11 /\ digits[1] = "1" THEN Tail(digits) ELSE digits

\* normalize_email: lower and strip
normalize_email(email) ==
    IF email = <<>> THEN <<>> ELSE Strip(Lower(email))

\* ------------------------------------------------------------------------
\* similarity.py: comparators (scores in thousandths of a percent)
\* ------------------------------------------------------------------------

Max(a, b) == IF a >= b THEN a ELSE b

\* length of a longest common subsequence
RECURSIVE LCS(_, _)
LCS(a, b) ==
    IF a = <<>> \/ b = <<>> THEN 0
    ELSE IF Head(a) = Head(b) THEN 1 + LCS(Tail(a), Tail(b))
    ELSE Max(LCS(Tail(a), b), LCS(a, Tail(b)))

\* rapidfuzz fuzz.ratio: 100 * (1 - indel / (len1 + len2)), with
\* indel = len1 + len2 - 2 * LCS; two empty strings are identical
fuzz_ratio(a, b) ==
    IF Len(a) + Len(b) = 0 THEN 100000
    ELSE (200000 * LCS(a, b)) \div (Len(a) + Len(b))

\* rapidfuzz fuzz.token_sort_ratio: ratio of the sorted, single-spaced words
token_sort_ratio(a, b) ==
    fuzz_ratio(Join(SortTokens(Split(a)), <<" ">>), Join(SortTokens(Split(b)), <<" ">>))

\* calculate_similarity with the method every caller here passes, 'token_sort'
calculate_similarity(value1, value2) ==
    IF value1 = <<>> \/ value2 = <<>> THEN 0
    ELSE LET v1 == Strip(value1)
             v2 == Strip(value2)
         IN  IF v1 = <<>> \/ v2 = <<>> THEN 0 ELSE token_sort_ratio(v1, v2)

compare_company_names(name1, name2) ==
    calculate_similarity(normalize_company_name(name1), normalize_company_name(name2))

compare_addresses(addr1, addr2) ==
    calculate_similarity(normalize_address(addr1), normalize_address(addr2))

\* a comparison of the phone numbers as written, not of their digits
compare_phones_as_written(phone1, phone2) ==
    IF phone1 = <<>> \/ phone2 = <<>> THEN 0
    ELSE IF phone1 = phone2 THEN 100000 ELSE 0

\* compare_phones: 100 for equal normalized numbers, else 0
compare_phones(phone1, phone2) ==
    LET p1 == normalize_phone(phone1)
        p2 == normalize_phone(phone2)
    IN  IF p1 = <<>> \/ p2 = <<>> THEN 0
        ELSE IF p1 = p2 THEN 100000 ELSE 0

compare_emails(email1, email2) ==
    LET e1 == normalize_email(email1)
        e2 == normalize_email(email2)
    IN  IF e1 = <<>> \/ e2 = <<>> THEN 0
        ELSE IF e1 = e2 THEN 100000 ELSE 0

\* ------------------------------------------------------------------------
\* Records: a dict from column name to value
\* ------------------------------------------------------------------------

\* record.get(field, '') or '' for a text column
Get(record, field) == IF field \in DOMAIN record THEN record[field] ELSE <<>>

\* d[k] = v on a dict
Put(d, k, v) == [x \in DOMAIN d \cup {k} |-> IF x = k THEN v ELSE d[x]]

\* create_blocking_key: "{company[:3]}_{zip[:5]}_{phone[-4:]}".lower()
create_blocking_key(record) ==
    LET company  == Prefix(normalize_company_name(Get(record, "COMPANY_NAME")), 3)
        zip_code == Prefix(Get(record, "ZIP_CODE"), 5)
        phone    == Suffix(normalize_phone(Get(record, "PHONE_NUMBER")), 4)
    IN  Lower(company \o <<"_">> \o zip_code \o <<"_">> \o phone)

\* ------------------------------------------------------------------------
\* matching_engine.py: rule engine
\* ------------------------------------------------------------------------
\* A condition is [field, percentage, percentage_ok, include, blank,
\* blank_allowed]: percentage_ok is FALSE when the configured percentage is
\* not a number, and float() raises ValueError on it.
\* A rule is [id, enabled, priority, match_reason, conditions]; the rules
\* document is the sequence of its rules in declaration order.

\* "<sub> in field.upper()" for the column names rules refer to
FieldContains(field, sub) ==
    CASE field = "COMPANY_NAME"   -> sub \in {"COMPANY", "NAME"}
      [] field = "CONTACT_NAME"   -> sub \in {"NAME"}
      [] field = "ADDRESS_LINE_1" -> sub \in {"ADDRESS"}
      [] field = "PHONE_NUMBER"   -> sub \in {"PHONE"}
      [] field = "EMAIL_ADDRESS"  -> sub \in {"EMAIL", "ADDRESS"}
      [] OTHER                    -> FALSE

\* f'{field.lower()}_score'
ScoreColumn(field) ==
    CASE field = "COMPANY_NAME"   -> "company_name_score"
      [] field = "CONTACT_NAME"   -> "contact_name_score"
      [] field = "ADDRESS_LINE_1" -> "address_line_1_score"
      [] field = "PHONE_NUMBER"   -> "phone_number_score"
      [] field = "EMAIL_ADDRESS"  -> "email_address_score"
      [] field = "ZIP_CODE"       -> "zip_code_score"
      [] OTHER                    -> "other_score"

\* a chain that sends only the COMPANY columns to the company comparator
CompanyOnlySimilarity(field, val1, val2) ==
    IF FieldContains(field, "COMPANY") THEN compare_company_names(val1, val2)
    ELSE IF FieldContains(field, "ADDRESS") THEN compare_addresses(val1, val2)
    ELSE IF FieldContains(field, "PHONE") THEN compare_phones(val1, val2)
    ELSE IF FieldContains(field, "EMAIL") THEN compare_emails(val1, val2)
    ELSE calculate_similarity(val1, val2)

\* the comparator chain of evaluate_condition (lines 67-76)
ConditionSimilarity(field, val1, val2) ==
    IF FieldContains(field, "COMPANY") \/ FieldContains(field, "NAME")
        THEN compare_company_names(val1, val2)
    ELSE IF FieldContains(field, "ADDRESS") THEN compare_addresses(val1, val2)
    ELSE IF FieldContains(field, "PHONE") THEN compare_phones(val1, val2)
    ELSE IF FieldContains(field, "EMAIL") THEN compare_emails(val1, val2)
    ELSE calculate_similarity(val1, val2)

\* evaluate_condition: the boolean it returns in `value`, or raised = TRUE
\* when float(percentage) raises (line 49, before the values are looked at)
evaluate_condition(record1, record2, condition) ==
    LET field == condition.field
        val1  == Strip(Get(record1, field))
        val2  == Strip(Get(record2, field))
        value ==
            IF condition.blank THEN (val1 = <<>> /\ val2 = <<>>)
            ELSE IF val1 = <<>> \/ val2 = <<>> THEN condition.blank_allowed
            ELSE IF condition.include
                 THEN ConditionSimilarity(field, val1, val2) >= condition.percentage * 1000
                 ELSE ConditionSimilarity(field, val1, val2) < condition.percentage * 1000
    IN  IF ~condition.percentage_ok THEN [raised |-> TRUE, value |-> FALSE]
        ELSE [raised |-> FALSE, value |-> value]

\* the comparator chain of evaluate_rule (lines 108-117)
ScoreSimilarity(field, val1, val2) ==
    IF FieldContains(field, "COMPANY") THEN compare_company_names(val1, val2)
    ELSE IF FieldContains(field, "ADDRESS") THEN compare_addresses(val1, val2)
    ELSE IF FieldContains(field, "PHONE") THEN compare_phones(val1, val2)
    ELSE IF FieldContains(field, "EMAIL") THEN compare_emails(val1, val2)
    ELSE calculate_similarity(val1, val2)

\* a loop that returns after the first condition it looks at
EvaluateFirstCondition(record1, record2, conditions, k, scores) ==
    IF k > Len(conditions) THEN [status |-> "match", scores |-> scores]
    ELSE IF evaluate_condition(record1, record2, conditions[k]).value
         THEN [status |-> "match", scores |-> scores]
         ELSE [status |-> "nomatch", scores |-> scores]

\* the loop of evaluate_rule over conditions[k..], scores so far in `scores`
RECURSIVE EvaluateConditions(_, _, _, _, _)
EvaluateConditions(record1, record2, conditions, k, scores) ==
    IF k > Len(conditions) THEN [status |-> "match", scores |-> scores]
    ELSE LET condition == conditions[k]
             field     == condition.field
             val1      == Strip(Get(record1, field))
             val2      == Strip(Get(record2, field))
             scores2   == IF val1 # <<>> /\ val2 # <<>>
                          THEN Put(scores, ScoreColumn(field), ScoreSimilarity(field, val1, val2))
                          ELSE scores
             holds     == evaluate_condition(record1, record2, condition)
         IN  IF holds.raised THEN [status |-> "raise", scores |-> scores2]
             ELSE IF ~holds.value THEN [status |-> "nomatch", scores |-> scores2]
             ELSE EvaluateConditions(record1, record2, conditions, k + 1, scores2)

\* evaluate_rule: status "match" is (True, scores), "nomatch" is (False, scores)
evaluate_rule(record1, record2, rule) ==
    IF ~rule.enabled THEN [status |-> "nomatch", scores |-> <<>>]
    ELSE IF rule.conditions = <<>> THEN [status |-> "nomatch", scores |-> <<>>]
    ELSE EvaluateConditions(record1, record2, rule.conditions, 1, <<>>)

\* an insertion that puts a rule before the rules of its own priority
RECURSIVE InsertBeforeEqual(_, _)
InsertBeforeEqual(rule, sorted) ==
    IF sorted = <<>> THEN <<rule>>
    ELSE IF rule.priority <= Head(sorted).priority THEN <<rule>> \o sorted
    ELSE <<Head(sorted)>> \o InsertBeforeEqual(rule, Tail(sorted))

\* sorted(rules.items(), key=priority): stable insertion by priority
RECURSIVE InsertByPriority(_, _)
InsertByPriority(rule, sorted) ==
    IF sorted = <<>> THEN <<rule>>
    ELSE IF rule.priority < Head(sorted).priority THEN <<rule>> \o sorted
    ELSE <<Head(sorted)>> \o InsertByPriority(rule, Tail(sorted))

RECURSIVE sorted_rules(_)
sorted_rules(rules) ==
    IF rules = <<>> THEN <<>>
    ELSE InsertByPriority(rules[Len(rules)], sorted_rules(SubSeq(rules, 1, Len(rules) - 1)))

NoMatch == [status |-> "none", candidate |-> 0, match_reason |-> "", scores |-> <<>>]

\* the two nested loops of find_best_match, from rule r and candidate c on
RECURSIVE FindFrom(_, _, _, _, _)
FindFrom(record, candidates, rules, r, c) ==
    IF r > Len(rules) THEN NoMatch
    ELSE IF ~rules[r].enabled \/ c > Len(candidates)
         THEN FindFrom(record, candidates, rules, r + 1, 1)
    ELSE LET res == evaluate_rule(record, candidates[c], rules[r])
         IN  IF res.status = "raise"
                 THEN [status |-> "raise", candidate |-> 0, match_reason |-> "", scores |-> <<>>]
             ELSE IF res.status = "match"
                 THEN [status |-> "match", candidate |-> c,
                       match_reason |-> rules[r].match_reason, scores |-> res.scores]
             ELSE FindFrom(record, candidates, rules, r, c + 1)

\* find_best_match: the position in `candidates` of the match, status "none"
\* for (None, '', {}), status "raise" when a rule evaluation raises
find_best_match(record, candidates, rules) ==
    FindFrom(record, candidates, sorted_rules(rules), 1, 1)

\* ------------------------------------------------------------------------
\* dedup.py: the dedup-key store
\* ------------------------------------------------------------------------
\* A mapping is [data_hash_to_key, key_to_data_hashes, key_to_identifiers,
\* total_runs]; the three indices are dicts (functions), the member lists are
\* sequences.  The timestamps of the metadata are left out.

EmptyDict == <<>>

\* generate_data_hash: SHA-256 of the five components joined by "|", cut to
\* 16 hex digits.  The hash is represented by the string it is computed
\* from (a hash that does not collide on the strings that occur).
generate_data_hash(record) ==
    Join(<<Upper(Strip(Get(record, "SOURCE_TYPE"))),
           Strip(Get(record, "SOURCE_ID")),
           normalize_company_name(Get(record, "COMPANY_NAME")),
           normalize_address(Get(record, "ADDRESS_LINE_1")),
           normalize_phone(Get(record, "PHONE_NUMBER"))>>, <<"|">>)

\* f"{record.get('SOURCE_TYPE', '')}:{record.get('SOURCE_ID', '')}"
Identifier(record) == Get(record, "SOURCE_TYPE") \o <<":">> \o Get(record, "SOURCE_ID")

\* the default of load_dedup_mappings (lines 49-60)
DefaultMappings ==
    [data_hash_to_key   |-> EmptyDict,
     key_to_data_hashes |-> EmptyDict,
     key_to_identifiers |-> EmptyDict,
     total_runs         |-> 0]

\* The store file: absent, a complete JSON document, or `torn`: opened for
\* writing (truncated) with the document not, or only partly, written.
AbsentFile == [state |-> "absent", data |-> DefaultMappings]

\* a load that never finds a file
load_defaults(file) == DefaultMappings

\* load_dedup_mappings: the document if the file exists and parses, else
\* the default (json.JSONDecodeError is swallowed)
load_dedup_mappings(file) ==
    IF file.state = "complete" THEN file.data ELSE DefaultMappings

\* what save_dedup_mappings writes: the mapping with total_runs bumped
SavedDocument(mappings) == [mappings EXCEPT !.total_runs = @ + 1]

\* get_or_create_dedup_key, with new_key the value uuid4() returns if called
get_or_create_dedup_key(record, mappings, new_key) ==
    LET data_hash == generate_data_hash(record)
    IN  IF data_hash \in DOMAIN mappings.data_hash_to_key
        THEN [dedup_key |-> mappings.data_hash_to_key[data_hash], is_new |-> FALSE,
              mappings |-> mappings]
        ELSE [dedup_key |-> new_key, is_new |-> TRUE,
              mappings |->
                [mappings EXCEPT
                   !.data_hash_to_key   = Put(@, data_hash, new_key),
                   !.key_to_data_hashes = Put(@, new_key, <<data_hash>>),
                   !.key_to_identifiers = Put(@, new_key, <<Identifier(record)>>)]]

InSeq(x, s) == \E n \in DOMAIN s : s[n] = x

\* d[k].append(x) without looking for x in d[k]
AppendAlways(d, k, x) ==
    Put(d, k, Append(IF k \in DOMAIN d THEN d[k] ELSE <<>>, x))

\* d[k].append(x) unless x is in d[k], d[k] starting empty when k is new
AppendMember(d, k, x) ==
    LET members == IF k \in DOMAIN d THEN d[k] ELSE <<>>
    IN  Put(d, k, IF InSeq(x, members) THEN members ELSE Append(members, x))

\* link_records
link_records(dedup_key, record, mappings) ==
    LET data_hash == generate_data_hash(record)
    IN  [mappings EXCEPT
           !.data_hash_to_key   = Put(@, data_hash, dedup_key),
           !.key_to_data_hashes = AppendMember(@, dedup_key, data_hash),
           !.key_to_identifiers = AppendMember(@, dedup_key, Identifier(record))]

\* get_matched_identifiers
get_matched_identifiers(dedup_key, mappings) ==
    IF dedup_key \in DOMAIN mappings.key_to_identifiers
    THEN mappings.key_to_identifiers[dedup_key] ELSE <<>>

\* ------------------------------------------------------------------------
\* Inputs of the pipeline
\* ------------------------------------------------------------------------

\* the longest input file and the number of runs of one behaviour
MaxRows == 3

MaxRuns == 2

\* A dedup key is <<"uuid", n>> (generated) or <<"raw", n>> (a value found
\* in the DEDUP_KEY column of an input file, as in an output file of an
\* earlier job fed back in); <<>> is the empty string.
RawKey == <<"raw", 1>>

CsvRow(source_type, source_id, company, address, zip, phone, key) ==
    [SOURCE_TYPE |-> source_type, SOURCE_ID |-> source_id, COMPANY_NAME |-> company,
     ADDRESS_LINE_1 |-> address, ZIP_CODE |-> zip, PHONE_NUMBER |-> phone,
     DEDUP_KEY |-> key]

AcmeInc == <<"A","c","m","e",","," ","I","n","c",".">>

AcmeIncorporated == <<"A","C","M","E"," ","I","N","C","O","R","P","O","R","A","T","E","D">>

AcmeTools == <<"A","c","m","e"," ","T","o","o","l","s">>

MainSt == <<"1","0","0"," ","M","a","i","n"," ","S","t">>

MainStreet == <<"1","0","0"," ","M","a","i","n"," ","S","t","r","e","e","t">>

Zip10001 == <<"1","0","0","0","1">>

Zip10002 == <<"1","0","0","0","2">>

Zip10001Plus4 == <<"1","0","0","0","1","-","0","0","0","0">>

PhoneParens == <<"(","2","1","2",")"," ","5","5","5","-","0","1","0","0">>

PhoneDashes == <<"2","1","2","-","5","5","5","-","0","1","0","0">>

\* the two rows of scenario S1
RowA == CsvRow(<<"A">>, <<"1">>, AcmeInc, MainSt, Zip10001, PhoneParens, <<>>)

RowB == CsvRow(<<"B">>, <<"9">>, AcmeIncorporated, MainStreet, Zip10001, PhoneDashes, <<>>)

\* RowA with a ZIP+4 code: the same source, name, address and phone, and
\* the same five leading ZIP characters
RowA2 == CsvRow(<<"A">>, <<"1">>, AcmeInc, MainSt, Zip10001Plus4, PhoneParens, <<>>)

\* RowB as an input file with a filled DEDUP_KEY column has it
RowBk == CsvRow(<<"B">>, <<"9">>, AcmeIncorporated, MainStreet, Zip10001, PhoneDashes, RawKey)

\* another company at the same phone number, in the next ZIP code
RowT == CsvRow(<<"C">>, <<"3">>, AcmeTools, MainSt, Zip10002, PhoneDashes, <<>>)

Catalogue == {RowA, RowB, RowA2, RowBk, RowT}

\* an input file: up to MaxRows different rows, or a file that cannot be read
Unreadable == [readable |-> FALSE, rows |-> <<>>]

IsInjective(f) == \A a, b \in DOMAIN f : f[a] = f[b] => a = b

\* the sequences over S of length up to n
SeqsUpTo(S, n) == UNION {[1..k -> S] : k \in 0..n}

Inputs == {Unreadable} \cup
          {[readable |-> TRUE, rows |-> f] :
              f \in UNION {{g \in [1..n -> Catalogue] : IsInjective(g)} : n \in 0..MaxRows}}

Condition(field, percentage) ==
    [field |-> field, percentage |-> percentage, percentage_ok |-> TRUE,
     include |-> TRUE, blank |-> FALSE, blank_allowed |-> FALSE]

\* the rule of scenario S1: company >= 85 AND phone >= 100 AND zip >= 100
RuleS1 ==
    [id |-> "rule_1", enabled |-> TRUE, priority |-> 1, match_reason |-> "EXACT",
     conditions |-> <<Condition("COMPANY_NAME", 85), Condition("PHONE_NUMBER", 100),
                      Condition("ZIP_CODE", 100)>>]

\* a looser rule on the company name alone
RuleName ==
    [id |-> "rule_2", enabled |-> TRUE, priority |-> 2, match_reason |-> "NAME",
     conditions |-> <<Condition("COMPANY_NAME", 50)>>]

\* a rule whose second percentage is not a number
RuleBad ==
    [id |-> "rule_3", enabled |-> TRUE, priority |-> 1, match_reason |-> "BAD",
     conditions |-> <<Condition("PHONE_NUMBER", 100),
                      [Condition("ZIP_CODE", 0) EXCEPT !.percentage_ok = FALSE]>>]

RuleDocs == {<<RuleS1>>, <<RuleName, [RuleS1 EXCEPT !.enabled = FALSE]>>, <<RuleBad>>}

\* config/rules.json: absent, or one of the documents
RuleFiles == {[state |-> "absent", data |-> <<>>]}
             \cup {[state |-> "complete", data |-> d] : d \in RuleDocs}

\* load_rules: {"rules": {}} when the file is missing or does not parse
load_rules(file) == IF file.state = "complete" THEN file.data ELSE <<>>

\* ------------------------------------------------------------------------
\* matching_engine.py: run_matching
\* ------------------------------------------------------------------------

VARIABLES
    input,              \* input_file: the rows of the input CSV file
    output_writable,    \* output_file: whether the path can be written
    rules_file,         \* config/rules.json
    store_file,         \* datafiles/models/dedup_mappings.json
    pc,                 \* "idle", or where the running job is: "rows", "save", "output"
    run,                \* number of jobs that have returned
    rules,              \* run_matching's locals ...
    mappings,
    records,
    blocks,
    i,
    processed_in_block,
    results,            \* indices into records: results holds the same dict objects
    stats,
    issued,             \* every key uuid4() has returned so far
    candidates_of,      \* history: the candidate indices offered for each row
    matched_with,       \* history: the row each row was matched to, 0 if none
    outputs,            \* history: the rows each job wrote, <<>> if it wrote none
    returned,           \* history: the stats each job returned
    saved,              \* history: what save_dedup_mappings returned in each job
    calls,              \* store API: number of get_or_create and link calls made
    last_call,          \* store API: the latest call, with the mapping before it
    save_pc,            \* save_dedup_mappings: "idle", or "writing" (file open)
    saves,              \* number of save_dedup_mappings calls that have ended
    complete_doc,       \* history: the latest document written completely
    pending_doc,        \* history: the document of the latest save begun
    loaded,             \* history: the latest load_dedup_mappings by a reader
    quality_metadata_ok,\* config/quality_metadata.db can be opened and read
    fn,                 \* function bench: the function applied last
    fn_in,              \* function bench: its arguments
    fn_out,             \* function bench: what it returned
    config_file,        \* a JSON config document on disk (rules.json, ...)
    cfg_clock,          \* the time stamps handed out to writes of config_file
    cfg_cache,          \* ConfigManager._cache / _file_timestamps for that path
    cfg_pc,             \* a config save: "idle", or "manager" / "app" while writing
    cfg_saves,          \* number of config saves that have ended
    cfg_complete,       \* history: the latest config document written completely
    cfg_pending,        \* history: the document of the latest config save begun
    cfg_loaded,         \* history: the latest load of the config document
    jobs                \* two jobs on one store file: position and mapping of each

store_api == <<calls, last_call, save_pc, saves, complete_doc, pending_doc, loaded>>

bench == <<fn, fn_in, fn_out>>

config_api == <<config_file, cfg_clock, cfg_cache, cfg_pc, cfg_saves, cfg_complete,
                cfg_pending, cfg_loaded>>

vars == <<input, output_writable, rules_file, store_file, pc, run, rules, mappings,
          records, blocks, i, processed_in_block, results, stats, issued,
          candidates_of, matched_with, outputs, returned, saved, store_api,
          quality_metadata_ok, bench, config_api, jobs>>

\* what no step of a job changes
files == <<input, output_writable, rules_file, quality_metadata_ok, store_api, bench,
           config_api, jobs>>

locals == <<rules, mappings, records, blocks, i, processed_in_block, results>>

history == <<candidates_of, matched_with>>

\* a generator that hands out one value again and again
reused_dedup_key(used) == <<"uuid", 1>>

\* generate_dedup_key: uuid4() draws a random value and never one it has
\* returned before.  Keys are only ever compared for equality, so the
\* first unused value of the series <<"uuid", 1>>, <<"uuid", 2>>, ... stands
\* for whichever value is drawn.
generate_dedup_key(used) ==
    <<"uuid", CHOOSE n \in 1..(Cardinality(used) + 1) :
                  /\ <<"uuid", n>> \notin used
                  /\ \A m \in 1..(n - 1) : <<"uuid", m>> \in used>>

\* standardize_record: the *_STD columns (the file has no ADDRESS_LINE_2 and
\* no EMAIL_ADDRESS column)
standardize_record(record) ==
    LET std == [COMPANY_NAME_STD |-> normalize_company_name(Get(record, "COMPANY_NAME")),
                ADDRESS1_STD     |-> normalize_address(Get(record, "ADDRESS_LINE_1")),
                ADDRESS2_STD     |-> normalize_address(Get(record, "ADDRESS_LINE_2")),
                PHONE_STD        |-> normalize_phone(Get(record, "PHONE_NUMBER")),
                EMAIL_STD        |-> normalize_email(Get(record, "EMAIL_ADDRESS"))]
    IN  [x \in DOMAIN record \cup DOMAIN std |-> IF x \in DOMAIN std THEN std[x] ELSE record[x]]

\* blocks after the first loop has run over records[1..n] (lines 251-258)
RECURSIVE BuildBlocks(_, _)
BuildBlocks(recs, n) ==
    IF n = 0 THEN EmptyDict
    ELSE LET b   == BuildBlocks(recs, n - 1)
             key == create_blocking_key(recs[n])
         IN  Put(b, key, Append(IF key \in DOMAIN b THEN b[key] ELSE <<>>, n))

\* the stats of lines 215-222; `raised` marks a call of run_matching that
\* ended with an exception and returned no stats
ZeroStats == [total_records |-> 0, matched_existing |-> 0, new_dedup_keys |-> 0,
              errors |-> 0, error_message |-> FALSE, write_error |-> FALSE,
              raised |-> FALSE]

\* round(value, 2) if value else 0
Round2(value) == IF value = 0 THEN 0 ELSE ((value + 5) \div 10) * 10

\* for key, value in scores.items(): record[key] = round(value, 2) if value else 0
ApplyScores(record, scores) ==
    [x \in DOMAIN record \cup DOMAIN scores |->
        IF x \in DOMAIN scores THEN Round2(scores[x]) ELSE record[x]]

NoCall == [op |-> "none", record |-> <<>>, dedup_key |-> <<>>, is_new |-> FALSE,
           before |-> DefaultMappings, after |-> DefaultMappings]

NoLoad == [done |-> FALSE, data |-> DefaultMappings, old |-> DefaultMappings,
           new |-> DefaultMappings]

\* the function bench before any call
IdleBench ==
    /\ fn = "none"
    /\ fn_in = <<>>
    /\ fn_out = <<>>

\* {} of load_config and load_json_config, { "rules": {} } of load_rules
EmptyDocument == <<>>

AbsentConfig == [state |-> "absent", data |-> EmptyDocument, mtime |-> 0]

NoCache == [present |-> FALSE, data |-> EmptyDocument, mtime |-> 0]

NoConfigLoad == [done |-> FALSE, by |-> "none", data |-> EmptyDocument,
                 old |-> EmptyDocument, new |-> EmptyDocument, cached |-> FALSE,
                 during |-> FALSE]

\* the jobs that share the store file
JobIds == {1, 2}

\* a job that has not called load_dedup_mappings yet
IdleJob == [pc |-> "idle", mappings |-> DefaultMappings, rows |-> 0, serial |-> TRUE]

NoJobs == [j \in JobIds |-> IdleJob]

\* no config file yet and an empty ConfigManager
IdleConfig ==
    /\ config_file = AbsentConfig
    /\ cfg_clock = 0
    /\ cfg_cache = NoCache
    /\ cfg_pc = "idle"
    /\ cfg_saves = 0
    /\ cfg_complete = EmptyDocument
    /\ cfg_pending = EmptyDocument
    /\ cfg_loaded = NoConfigLoad

\* before the first job: any rules file, no store file, nothing processed
InitJob ==
    /\ output_writable \in BOOLEAN
    /\ rules_file \in RuleFiles
    /\ store_file = AbsentFile
    /\ pc = "idle"
    /\ run = 0
    /\ rules = <<>>
    /\ mappings = DefaultMappings
    /\ records = <<>>
    /\ blocks = EmptyDict
    /\ i = 0
    /\ processed_in_block = {}
    /\ results = <<>>
    /\ stats = ZeroStats
    /\ issued = {}
    /\ candidates_of = <<>>
    /\ matched_with = <<>>
    /\ outputs = <<>>
    /\ returned = <<>>
    /\ saved = <<>>
    /\ calls = 0
    /\ last_call = NoCall
    /\ save_pc = "idle"
    /\ saves = 0
    /\ complete_doc = DefaultMappings
    /\ pending_doc = DefaultMappings
    /\ loaded = NoLoad
    /\ quality_metadata_ok \in BOOLEAN
    /\ IdleBench
    /\ IdleConfig
    /\ jobs = NoJobs

Init == input \in Inputs /\ InitJob

\* lines 210-258: load the configuration and the store, read the input,
\* standardize every row and group the rows by blocking key
StartRun ==
    /\ pc = "idle"
    /\ run < MaxRuns
    /\ input.readable
    /\ input.rows = <<>> \/ quality_metadata_ok
    /\ rules' = load_rules(rules_file)
    /\ mappings' = load_dedup_mappings(store_file)
    /\ records' = [n \in DOMAIN input.rows |-> standardize_record(input.rows[n])]
    /\ blocks' = BuildBlocks(records', Len(input.rows))
    /\ stats' = [ZeroStats EXCEPT !.total_records = Len(input.rows)]
    /\ i' = 1
    /\ processed_in_block' = {}
    /\ results' = <<>>
    /\ candidates_of' = [n \in DOMAIN input.rows |-> <<>>]
    /\ matched_with' = [n \in DOMAIN input.rows |-> 0]
    /\ pc' = IF input.rows = <<>> THEN "save" ELSE "rows"
    /\ UNCHANGED <<files, store_file, run, issued, outputs, returned, saved>>

\* lines 243-246: reading the input raises; the job returns without saving
ReadInputFails ==
    /\ pc = "idle"
    /\ run < MaxRuns
    /\ ~input.readable
    /\ rules' = load_rules(rules_file)
    /\ mappings' = load_dedup_mappings(store_file)
    /\ records' = <<>>
    /\ blocks' = EmptyDict
    /\ i' = 0
    /\ processed_in_block' = {}
    /\ results' = <<>>
    /\ stats' = [ZeroStats EXCEPT !.errors = 1, !.error_message = TRUE]
    /\ candidates_of' = <<>>
    /\ matched_with' = <<>>
    /\ run' = run + 1
    /\ outputs' = Append(outputs, <<>>)
    /\ returned' = Append(returned, stats')
    /\ saved' = Append(saved, FALSE)
    /\ UNCHANGED <<files, store_file, pc, issued>>

\* lines 250-258 are outside any try: calculate_quality_scores of the first
\* row loads the quality metadata (quality_scorer.py 161-170), and the
\* sqlite3 error of a database that cannot be opened or read leaves
\* run_matching as an exception: no stats, no output, nothing saved
QualityScoringRaises ==
    /\ pc = "idle"
    /\ run < MaxRuns
    /\ input.readable
    /\ input.rows # <<>>
    /\ ~quality_metadata_ok
    /\ rules' = load_rules(rules_file)
    /\ mappings' = load_dedup_mappings(store_file)
    /\ records' = <<>>
    /\ blocks' = EmptyDict
    /\ i' = 0
    /\ processed_in_block' = {}
    /\ results' = <<>>
    /\ stats' = [ZeroStats EXCEPT !.total_records = Len(input.rows), !.raised = TRUE]
    /\ candidates_of' = <<>>
    /\ matched_with' = <<>>
    /\ run' = run + 1
    /\ outputs' = Append(outputs, <<>>)
    /\ returned' = Append(returned, stats')
    /\ saved' = Append(saved, FALSE)
    /\ UNCHANGED <<files, store_file, pc, issued>>

\* candidates drawn from the whole file instead of the row's block
candidates_any_block ==
    SelectSeq([n \in DOMAIN records |-> n],
              LAMBDA j : j # i /\ j \notin processed_in_block)

\* the rows of the block of row i, the processed ones included
candidates_unfiltered ==
    SelectSeq(blocks[create_blocking_key(records[i])], LAMBDA j : j # i)

\* lines 266-268
candidates_indices ==
    SelectSeq(blocks[create_blocking_key(records[i])],
              LAMBDA j : j # i /\ j \notin processed_in_block)

\* lines 284-290 and 294-296: the columns the row is emitted with
Emit(record, dedup_key, match_reason, matched_record_ids, scores) ==
    ApplyScores(Put(Put(Put(record, "DEDUP_KEY", dedup_key),
                        "MATCH_REASON", match_reason),
                    "MATCHED_RECORD_IDS", matched_record_ids),
                scores)

\* one iteration of the loop of lines 264-309
ProcessRow ==
    /\ pc = "rows"
    /\ i <= Len(records)
    /\ \E cand \in {candidates_indices} :
       \E found \in {find_best_match(records[i], [k \in DOMAIN cand |-> records[cand[k]]], rules)} :
       LET record         == records[i]
           matched_record == records[cand[found.candidate]]
       IN  /\ candidates_of' = [candidates_of EXCEPT ![i] = cand]
           /\ \/ \* a match whose record carries a DEDUP_KEY: reuse it
                 /\ found.status = "match"
                 /\ "DEDUP_KEY" \in DOMAIN matched_record
                 /\ matched_record["DEDUP_KEY"] # <<>>
                 /\ \E dedup_key \in {matched_record["DEDUP_KEY"]} :
                    \E linked \in {link_records(dedup_key, record, mappings)} :
                        /\ mappings' = linked
                        /\ records' = [records EXCEPT ![i] =
                              Emit(record, dedup_key, found.match_reason,
                                   Join(get_matched_identifiers(dedup_key, linked), <<"|">>),
                                   found.scores)]
                 /\ stats' = [stats EXCEPT !.matched_existing = @ + 1]
                 /\ matched_with' = [matched_with EXCEPT ![i] = cand[found.candidate]]
                 /\ processed_in_block' = processed_in_block \cup {i}
                 /\ UNCHANGED issued
              \/ \* a match whose record carries none: get_or_create for the row
                 /\ found.status = "match"
                 /\ ~ /\ "DEDUP_KEY" \in DOMAIN matched_record
                      /\ matched_record["DEDUP_KEY"] # <<>>
                 /\ \E new_key \in {generate_dedup_key(issued)} :
                    \E got \in {get_or_create_dedup_key(record, mappings, new_key)} :
                    \E linked \in {link_records(got.dedup_key, record, got.mappings)} :
                        /\ mappings' = linked
                        /\ issued' = IF got.is_new THEN issued \cup {new_key} ELSE issued
                        /\ records' = [records EXCEPT ![i] =
                              Emit(record, got.dedup_key, found.match_reason,
                                   Join(get_matched_identifiers(got.dedup_key, linked), <<"|">>),
                                   found.scores)]
                 /\ stats' = [stats EXCEPT !.matched_existing = @ + 1]
                 /\ matched_with' = [matched_with EXCEPT ![i] = cand[found.candidate]]
                 /\ processed_in_block' = processed_in_block \cup {i}
              \/ \* no match: get_or_create, MATCH_REASON "NEW"
                 /\ found.status = "none"
                 /\ \E new_key \in {generate_dedup_key(issued)} :
                    \E got \in {get_or_create_dedup_key(record, mappings, new_key)} :
                        /\ mappings' = got.mappings
                        /\ issued' = IF got.is_new THEN issued \cup {new_key} ELSE issued
                        /\ records' = [records EXCEPT ![i] =
                              Emit(record, got.dedup_key, "NEW", <<>>, <<>>)]
                        /\ stats' = [stats EXCEPT !.new_dedup_keys =
                                        IF got.is_new THEN @ + 1 ELSE @]
                 /\ processed_in_block' = processed_in_block \cup {i}
                 /\ UNCHANGED matched_with
              \/ \* an exception in the row: MATCH_REASON "ERROR", not marked processed
                 /\ found.status = "raise"
                 /\ records' = [records EXCEPT ![i] =
                       Put(Put(record, "MATCH_REASON", "ERROR"), "ERROR", "ValueError")]
                 /\ stats' = [stats EXCEPT !.errors = @ + 1]
                 /\ UNCHANGED <<mappings, issued, matched_with, processed_in_block>>
    /\ results' = Append(results, i)
    /\ i' = i + 1
    /\ pc' = IF i = Len(records) THEN "save" ELSE "rows"
    /\ UNCHANGED <<files, store_file, run, rules, blocks, outputs, returned, saved>>

\* line 312 and save_dedup_mappings: the file is opened for writing, which
\* truncates it, and the document is written into it; an IOError before the
\* open leaves the file as it was, one after it leaves a torn file.  The
\* result is returned to run_matching, which drops it.
SaveDedupMappings ==
    /\ pc = "save"
    /\ \/ /\ store_file' = [state |-> "complete", data |-> SavedDocument(mappings)]
          /\ saved' = Append(saved, TRUE)
       \/ /\ store_file' = store_file
          /\ saved' = Append(saved, FALSE)
       \/ /\ store_file' = [state |-> "torn", data |-> DefaultMappings]
          /\ saved' = Append(saved, FALSE)
    /\ mappings' = SavedDocument(mappings)
    /\ pc' = "output"
    /\ UNCHANGED <<files, run, rules, records, blocks, i, processed_in_block, results,
                   stats, issued, history, outputs, returned>>

\* lines 314-338: write the output CSV if there are results (an exception
\* while writing is counted in errors) and return the stats
WriteOutput ==
    /\ pc = "output"
    /\ \/ /\ results = <<>> \/ output_writable
          /\ outputs' = Append(outputs, [k \in DOMAIN results |-> records[results[k]]])
          /\ stats' = stats
       \/ /\ results # <<>> /\ ~output_writable
          /\ outputs' = Append(outputs, <<>>)
          /\ stats' = [stats EXCEPT !.errors = @ + 1, !.write_error = TRUE]
    /\ returned' = Append(returned, stats')
    /\ run' = run + 1
    /\ pc' = "idle"
    /\ UNCHANGED <<files, store_file, rules, mappings, records, blocks, i,
                   processed_in_block, results, issued, history, saved>>

Next == StartRun \/ ReadInputFails \/ QualityScoringRaises \/ ProcessRow \/ SaveDedupMappings \/ WriteOutput

Spec == Init /\ [][Next]_vars

\* ------------------------------------------------------------------------
\* The job run twice on one set of rows in two orders: after the first job
\* the rows of the input file are put in another order
\* ------------------------------------------------------------------------

\* the input file rewritten with its rows in another order, before the
\* second job and while the store is what the first job loaded
Reorder ==
    /\ pc = "idle"
    /\ run = 1
    /\ ~saved[1]
    /\ input.readable
    /\ \E perm \in [DOMAIN input.rows -> DOMAIN input.rows] :
          /\ IsInjective(perm)
          /\ \E n \in DOMAIN perm : perm[n] # n
          /\ input' = [input EXCEPT !.rows = [n \in DOMAIN input.rows |-> input.rows[perm[n]]]]
    /\ UNCHANGED <<output_writable, rules_file, store_file, pc, run, rules, mappings,
                   records, blocks, i, processed_in_block, results, stats, issued,
                   candidates_of, matched_with, outputs, returned, saved, store_api,
                   quality_metadata_ok, bench, config_api, jobs>>

NextOrder == Next \/ Reorder

SpecOrder == Init /\ [][NextOrder]_vars

\* ------------------------------------------------------------------------
\* The job on input files that hold rows without any value
\* ------------------------------------------------------------------------

\* a line of commas, and one with blanks in the address cell: csv.DictReader
\* skips a line without any cell, not a line of empty cells
RowBlank == CsvRow(<<>>, <<>>, <<>>, <<>>, <<>>, <<>>, <<>>)

RowBlank2 == CsvRow(<<>>, <<>>, <<>>, <<" ">>, <<>>, <<>>, <<>>)

BlankInputs == {Unreadable} \cup
               {[readable |-> TRUE, rows |-> f] :
                   f \in {g \in SeqsUpTo({RowA, RowBk, RowBlank, RowBlank2}, MaxRows) :
                             IsInjective(g)}}

InitBlank == input \in BlankInputs /\ InitJob

SpecBlank == InitBlank /\ [][Next]_vars

\* ------------------------------------------------------------------------
\* The dedup store on its own: callers of get_or_create_dedup_key and
\* link_records on one mapping, save_dedup_mappings step by step, and a
\* reader that loads the file at any moment
\* ------------------------------------------------------------------------

MaxCalls == 3
MaxSaves == 2

one_job == <<input, output_writable, rules_file, pc, run, rules, records, blocks, i,
             processed_in_block, results, stats, candidates_of, matched_with,
             outputs, returned, saved, quality_metadata_ok, bench, config_api>>

job == <<one_job, jobs>>

\* the matching job and the dedup store together
matching == <<input, output_writable, rules_file, store_file, pc, run, rules, mappings,
              records, blocks, i, processed_in_block, results, stats, issued,
              candidates_of, matched_with, outputs, returned, saved, store_api,
              quality_metadata_ok, jobs>>

\* the dedup keys a mapping knows in any of its three indices
KeysOf(m) ==
    DOMAIN m.key_to_data_hashes \cup DOMAIN m.key_to_identifiers
        \cup {m.data_hash_to_key[h] : h \in DOMAIN m.data_hash_to_key}

\* the records the callers pass: two with one data hash, one with another
StoreRecords == {RowA, RowA2, RowB}

InitStore ==
    /\ input = [readable |-> TRUE, rows |-> <<>>]
    /\ output_writable = TRUE
    /\ rules_file = [state |-> "absent", data |-> <<>>]
    /\ store_file = AbsentFile
    /\ pc = "idle"
    /\ run = 0
    /\ rules = <<>>
    /\ mappings = load_dedup_mappings(AbsentFile)
    /\ records = <<>>
    /\ blocks = EmptyDict
    /\ i = 0
    /\ processed_in_block = {}
    /\ results = <<>>
    /\ stats = ZeroStats
    /\ issued = {}
    /\ candidates_of = <<>>
    /\ matched_with = <<>>
    /\ outputs = <<>>
    /\ returned = <<>>
    /\ saved = <<>>
    /\ calls = 0
    /\ last_call = NoCall
    /\ save_pc = "idle"
    /\ saves = 0
    /\ complete_doc = DefaultMappings
    /\ pending_doc = DefaultMappings
    /\ loaded = NoLoad
    /\ quality_metadata_ok = TRUE
    /\ IdleBench
    /\ IdleConfig
    /\ jobs = NoJobs

\* dedup.py lines 79-110
GetOrCreate ==
    /\ save_pc = "idle"
    /\ calls < MaxCalls
    /\ \E record \in StoreRecords :
       \E new_key \in {generate_dedup_key(issued)} :
       \E got \in {get_or_create_dedup_key(record, mappings, new_key)} :
           /\ mappings' = got.mappings
           /\ issued' = IF got.is_new THEN issued \cup {new_key} ELSE issued
           /\ last_call' = [op |-> "get_or_create", record |-> record,
                            dedup_key |-> got.dedup_key, is_new |-> got.is_new,
                            before |-> mappings, after |-> got.mappings]
    /\ calls' = calls + 1
    /\ UNCHANGED <<job, store_file, save_pc, saves, complete_doc, pending_doc, loaded>>

\* dedup.py lines 113-135, called with a key of the mapping or with a key
\* that comes from the caller (a DEDUP_KEY column)
Link ==
    /\ save_pc = "idle"
    /\ calls < MaxCalls
    /\ \E record \in StoreRecords :
       \E dedup_key \in KeysOf(mappings) \cup {RawKey} :
       \E linked \in {link_records(dedup_key, record, mappings)} :
           /\ mappings' = linked
           /\ last_call' = [op |-> "link", record |-> record,
                            dedup_key |-> dedup_key, is_new |-> FALSE,
                            before |-> mappings, after |-> linked]
    /\ calls' = calls + 1
    /\ UNCHANGED <<job, store_file, issued, save_pc, saves, complete_doc, pending_doc,
                   loaded>>

\* dedup.py lines 66-72: total_runs is counted, then open(path, 'w') empties
\* the file
SaveBegin ==
    /\ save_pc = "idle"
    /\ saves < MaxSaves
    /\ mappings' = SavedDocument(mappings)
    /\ pending_doc' = SavedDocument(mappings)
    /\ store_file' = [state |-> "torn", data |-> DefaultMappings]
    /\ save_pc' = "writing"
    /\ UNCHANGED <<job, issued, calls, last_call, saves, complete_doc, loaded>>

\* dedup.py lines 73-74: json.dump has written the whole document
SaveEnd ==
    /\ save_pc = "writing"
    /\ store_file' = [state |-> "complete", data |-> pending_doc]
    /\ complete_doc' = pending_doc
    /\ save_pc' = "idle"
    /\ saves' = saves + 1
    /\ UNCHANGED <<job, mappings, issued, calls, last_call, pending_doc, loaded>>

\* dedup.py lines 75-76, or the process is stopped: the write ends part-way
SaveInterrupted ==
    /\ save_pc = "writing"
    /\ save_pc' = "idle"
    /\ saves' = saves + 1
    /\ UNCHANGED <<job, store_file, mappings, issued, calls, last_call, complete_doc,
                   pending_doc, loaded>>

\* dedup.py lines 38-60, by a reader of the same file
Load ==
    /\ loaded' = [done |-> TRUE, data |-> load_dedup_mappings(store_file),
                  old |-> complete_doc, new |-> pending_doc]
    /\ UNCHANGED <<job, store_file, mappings, issued, calls, last_call, save_pc, saves,
                   complete_doc, pending_doc>>

NextStore == GetOrCreate \/ Link \/ SaveBegin \/ SaveEnd \/ SaveInterrupted \/ Load

SpecStore == InitStore /\ [][NextStore]_vars

\* ------------------------------------------------------------------------
\* The rule engine called on its own: evaluate_condition, evaluate_rule and
\* find_best_match applied once to records, conditions and rules documents
\* drawn from small sets (fn names the call, fn_in its arguments, fn_out
\* what it returned)
\* ------------------------------------------------------------------------
MaxConditions == 2

MaxCandidates == 2

MaxRules == 3

\* records with a CONTACT_NAME column: a name, its short form, blanks only,
\* and a record without the column
BenchRecords ==
    {Put(RowA, "CONTACT_NAME", AcmeInc), Put(RowB, "CONTACT_NAME", <<"A","c","m","e">>),
     Put(RowT, "CONTACT_NAME", <<" "," ">>), RowA2}

\* every condition over the fields, thresholds and flags
BenchConditions ==
    {[field |-> f, percentage |-> p, percentage_ok |-> TRUE,
      include |-> inc, blank |-> b, blank_allowed |-> ba] :
        f \in {"COMPANY_NAME", "CONTACT_NAME", "ADDRESS_LINE_1", "PHONE_NUMBER", "ZIP_CODE"},
        p \in {0, 85, 100}, inc \in BOOLEAN, b \in BOOLEAN, ba \in BOOLEAN}

\* the conditions rules are put together from
RuleConditions ==
    {Condition("COMPANY_NAME", 85), Condition("PHONE_NUMBER", 100),
     Condition("ZIP_CODE", 100),
     [Condition("CONTACT_NAME", 100) EXCEPT !.blank_allowed = TRUE],
     [Condition("ADDRESS_LINE_1", 100) EXCEPT !.include = FALSE]}

\* rules with no, one or more conditions, enabled or not
BenchRules ==
    {[id |-> "rule_9", enabled |-> e, priority |-> 1, match_reason |-> "BENCH",
      conditions |-> cs] : e \in BOOLEAN, cs \in SeqsUpTo(RuleConditions, MaxConditions)}

\* a second rule of priority 2, declared under another id
RuleTie ==
    [id |-> "rule_4", enabled |-> TRUE, priority |-> 2, match_reason |-> "TIE",
     conditions |-> <<Condition("COMPANY_NAME", 50)>>]

\* rules documents: the rules in any declaration order
BenchDocs ==
    {d \in SeqsUpTo({RuleS1, RuleName, RuleTie, [RuleS1 EXCEPT !.enabled = FALSE]}, MaxRules) :
        IsInjective(d)}

BenchCandidates == {c \in SeqsUpTo(BenchRecords, MaxCandidates) : IsInjective(c)}

ApplyEvaluateCondition ==
    /\ fn = "none"
    /\ \E record1 \in BenchRecords, record2 \in BenchRecords, condition \in BenchConditions :
          /\ fn' = "evaluate_condition"
          /\ fn_in' = [record1 |-> record1, record2 |-> record2, condition |-> condition]
          /\ fn_out' = evaluate_condition(record1, record2, condition)
    /\ UNCHANGED <<matching, config_api>>

ApplyEvaluateRule ==
    /\ fn = "none"
    /\ \E record1 \in BenchRecords, record2 \in BenchRecords, rule \in BenchRules :
          /\ fn' = "evaluate_rule"
          /\ fn_in' = [record1 |-> record1, record2 |-> record2, rule |-> rule]
          /\ fn_out' = evaluate_rule(record1, record2, rule)
    /\ UNCHANGED <<matching, config_api>>

ApplyFindBestMatch ==
    /\ fn = "none"
    /\ \E record \in BenchRecords, candidates \in BenchCandidates, doc \in BenchDocs :
          /\ fn' = "find_best_match"
          /\ fn_in' = [record |-> record, candidates |-> candidates, rules |-> doc]
          /\ fn_out' = find_best_match(record, candidates, doc)
    /\ UNCHANGED <<matching, config_api>>

NextRules == ApplyEvaluateCondition \/ ApplyEvaluateRule \/ ApplyFindBestMatch

SpecRules == InitStore /\ [][NextRules]_vars

\* ------------------------------------------------------------------------
\* A config document (config/rules.json) saved by ConfigManager.save_config
\* or app.save_json_config, step by step, and loaded at any moment by
\* ConfigManager.load_config or by load_rules / load_json_config
\* ------------------------------------------------------------------------
\* config_file is [state, data, mtime] with state "absent", "complete" or
\* "torn" (opened with mode 'w': truncated, the document not or only partly
\* written).  cfg_clock is the file system's clock: a write stamps the file
\* with the current tick or the next one.  cfg_complete is the last document
\* written completely, cfg_pending the one being written.

MaxConfigSaves == 2

\* open(file_path, 'w') of save_config (line 93) or save_json_config (line
\* 26): the file is truncated before json.dump writes the document
ConfigSaveBegin ==
    /\ cfg_pc = "idle"
    /\ cfg_saves < MaxConfigSaves
    /\ \E data \in RuleDocs, by \in {"save_config", "save_json_config"},
          tick \in {cfg_clock, cfg_clock + 1} :
          /\ config_file' = [state |-> "torn", data |-> EmptyDocument, mtime |-> tick]
          /\ cfg_clock' = tick
          /\ cfg_pending' = data
          /\ cfg_pc' = by
    /\ cfg_saves' = cfg_saves + 1
    /\ UNCHANGED <<matching, bench, cfg_cache, cfg_complete, cfg_loaded>>

\* json.dump has written the document and the file is closed; save_config
\* then stores the document and the file's mtime in the cache (lines 96-99)
ConfigSaveEnd ==
    /\ cfg_pc \in {"save_config", "save_json_config"}
    /\ \E tick \in {cfg_clock, cfg_clock + 1} :
          /\ config_file' = [state |-> "complete", data |-> cfg_pending, mtime |-> tick]
          /\ cfg_clock' = tick
          /\ cfg_cache' = IF cfg_pc = "save_config"
                          THEN [present |-> TRUE, data |-> cfg_pending, mtime |-> tick]
                          ELSE cfg_cache
    /\ cfg_complete' = cfg_pending
    /\ cfg_pc' = "idle"
    /\ UNCHANGED <<matching, bench, cfg_saves, cfg_pending, cfg_loaded>>

\* json.dump raises IOError/OSError (disk full, process killed): the save
\* returns False and the truncated file stays
ConfigSaveFails ==
    /\ cfg_pc \in {"save_config", "save_json_config"}
    /\ cfg_pc' = "idle"
    /\ UNCHANGED <<matching, bench, config_file, cfg_clock, cfg_cache, cfg_saves,
                   cfg_complete, cfg_pending, cfg_loaded>>

\* a load and what it returned; old is the previous complete document, new
\* the one being written, `during` says that a save was under way
LoadOf(by, data, cached) ==
    [done |-> TRUE, by |-> by, data |-> data, old |-> cfg_complete,
     new |-> IF cfg_pc = "idle" THEN cfg_complete ELSE cfg_pending, cached |-> cached,
     during |-> cfg_pc # "idle"]

\* ConfigManager.load_config (lines 33-73), use_cache = True
LoadConfig ==
    /\ \/ /\ config_file.state = "absent"
          /\ cfg_loaded' = LoadOf("load_config", EmptyDocument, FALSE)
          /\ UNCHANGED cfg_cache
       \/ /\ config_file.state # "absent"
          /\ cfg_cache.present
          /\ config_file.mtime <= cfg_cache.mtime
          /\ cfg_loaded' = LoadOf("load_config", cfg_cache.data, TRUE)
          /\ UNCHANGED cfg_cache
       \/ /\ config_file.state = "complete"
          /\ ~(cfg_cache.present /\ config_file.mtime <= cfg_cache.mtime)
          /\ cfg_loaded' = LoadOf("load_config", config_file.data, FALSE)
          /\ cfg_cache' = [present |-> TRUE, data |-> config_file.data,
                           mtime |-> config_file.mtime]
       \/ /\ config_file.state = "torn"
          /\ ~(cfg_cache.present /\ config_file.mtime <= cfg_cache.mtime)
          /\ cfg_loaded' = LoadOf("load_config", EmptyDocument, FALSE)
          /\ UNCHANGED cfg_cache
    /\ UNCHANGED <<matching, bench, config_file, cfg_clock, cfg_pc, cfg_saves,
                   cfg_complete, cfg_pending>>

\* load_rules at the start of run_matching (matching_engine.py 28-34) and
\* app.load_json_config: the document, or the empty one when the file is
\* missing or does not parse
LoadRules ==
    /\ cfg_loaded' = LoadOf("load_rules", load_rules(config_file), FALSE)
    /\ UNCHANGED <<matching, bench, config_file, cfg_clock, cfg_cache, cfg_pc, cfg_saves,
                   cfg_complete, cfg_pending>>

NextConfig == ConfigSaveBegin \/ ConfigSaveEnd \/ ConfigSaveFails \/ LoadConfig \/ LoadRules

SpecConfig == InitStore /\ [][NextConfig]_vars

\* ------------------------------------------------------------------------
\* blueprints/api.py update_settings_section on top of the config document:
\* the handler edits the document load_config returned and saves it
\* ------------------------------------------------------------------------

\* ConfigManager.load_config (lines 33-73) as a function of the file and the
\* cache: the document returned, the cache afterwards, whether the cache
\* was served, and whether the dict returned is the object the cache holds
load_config(file, cache) ==
    IF file.state = "absent"
        THEN [data |-> EmptyDocument, cache |-> cache, cached |-> FALSE, shared |-> FALSE]
    ELSE IF cache.present /\ file.mtime <= cache.mtime
        THEN [data |-> cache.data, cache |-> cache, cached |-> TRUE, shared |-> TRUE]
    ELSE IF file.state = "complete"
        THEN [data |-> file.data,
              cache |-> [present |-> TRUE, data |-> file.data, mtime |-> file.mtime],
              cached |-> FALSE, shared |-> TRUE]
    ELSE [data |-> EmptyDocument, cache |-> cache, cached |-> FALSE, shared |-> FALSE]

\* api.py lines 362-369: settings = load_config(...); settings[section] =
\* section_data changes the dict in place, which is the cached object unless
\* load_config returned a new {}; then save_config opens the file
UpdateSectionBegin ==
    /\ cfg_pc = "idle"
    /\ cfg_saves < MaxConfigSaves
    /\ \E edited \in RuleDocs \ {EmptyDocument}, tick \in {cfg_clock, cfg_clock + 1} :
       \E got \in {load_config(config_file, cfg_cache)} :
          /\ cfg_loaded' = LoadOf("load_config", got.data, got.cached)
          /\ cfg_cache' = IF got.shared THEN [got.cache EXCEPT !.data = edited]
                          ELSE got.cache
          /\ config_file' = [state |-> "torn", data |-> EmptyDocument, mtime |-> tick]
          /\ cfg_clock' = tick
          /\ cfg_pending' = edited
    /\ cfg_pc' = "save_config"
    /\ cfg_saves' = cfg_saves + 1
    /\ UNCHANGED <<matching, bench, cfg_complete>>

\* the same, but open(file_path, 'w') raises (lines 92 and 103-104):
\* save_config returns False, the handler answers 500, the file is as before
UpdateSectionFails ==
    /\ cfg_pc = "idle"
    /\ cfg_saves < MaxConfigSaves
    /\ \E edited \in RuleDocs \ {EmptyDocument} :
       \E got \in {load_config(config_file, cfg_cache)} :
          /\ cfg_loaded' = LoadOf("load_config", got.data, got.cached)
          /\ cfg_cache' = IF got.shared THEN [got.cache EXCEPT !.data = edited]
                          ELSE got.cache
    /\ cfg_saves' = cfg_saves + 1
    /\ UNCHANGED <<matching, bench, config_file, cfg_clock, cfg_pc, cfg_complete,
                   cfg_pending>>

NextSettings == NextConfig \/ UpdateSectionBegin \/ UpdateSectionFails

SpecSettings == InitStore /\ [][NextSettings]_vars

\* ------------------------------------------------------------------------
\* Header mapping: app.py auto_map_fields and file_processor.py
\* build_column_mapping, applied to one source header and a columns
\* metadata document
\* ------------------------------------------------------------------------
\* The metadata document is the sequence of its columns in the order of the
\* JSON object; a column is [name, alternate_columns].

MaxColumns == 3

\* "sub in s" of Python
Contains(sub, s) ==
    \E k \in 0..(Len(s) - Len(sub)) : SubSeq(s, k + 1, k + Len(sub)) = sub

\* the loop of auto_map_fields over columns_metadata.items() from column k
\* on (lines 357-375): best_match is <<>> for None
RECURSIVE AutoMapFrom(_, _, _, _, _)
AutoMapFrom(source_upper, columns_metadata, k, best_match, best_score) ==
    IF k > Len(columns_metadata) THEN [best_match |-> best_match, best_score |-> best_score]
    ELSE LET std_col    == columns_metadata[k].name
             alternates == {Upper(a) : a \in Range(columns_metadata[k].alternate_columns)}
         IN  IF source_upper = Upper(std_col)
                 THEN [best_match |-> std_col, best_score |-> 100]
             ELSE IF source_upper \in alternates
                 THEN [best_match |-> std_col, best_score |-> 95]
             ELSE IF /\ Contains(Upper(std_col), source_upper)
                        \/ Contains(source_upper, Upper(std_col))
                     /\ best_score < 70
                 THEN AutoMapFrom(source_upper, columns_metadata, k + 1, std_col, 70)
             ELSE AutoMapFrom(source_upper, columns_metadata, k + 1, best_match, best_score)

\* auto_map_fields for one header: mapping[source_col] and
\* confidence[source_col], or no entry (lines 352-379)
auto_map_fields(source_col, columns_metadata) ==
    LET best == AutoMapFrom(Strip(Upper(source_col)), columns_metadata, 1, <<>>, 0)
    IN  IF best.best_match # <<>> /\ best.best_score >= 70
        THEN [mapped |-> TRUE, column |-> best.best_match, score |-> best.best_score]
        ELSE [mapped |-> FALSE, column |-> <<>>, score |-> 0]

\* the inner loop of build_column_mapping from column k on (lines 36-46)
RECURSIVE BuildMappingFrom(_, _, _)
BuildMappingFrom(source_upper, columns_metadata, k) ==
    IF k > Len(columns_metadata) THEN [mapped |-> FALSE, column |-> <<>>]
    ELSE LET std_col    == columns_metadata[k].name
             alternates == {Upper(a) : a \in Range(columns_metadata[k].alternate_columns)}
         IN  IF source_upper = Upper(std_col) \/ source_upper \in alternates
             THEN [mapped |-> TRUE, column |-> std_col]
             ELSE BuildMappingFrom(source_upper, columns_metadata, k + 1)

\* build_column_mapping for one header: mapping[source_col], or no entry
build_column_mapping(source_col, columns_metadata) ==
    BuildMappingFrom(Strip(Upper(source_col)), columns_metadata, 1)

\* columns: ZIP_CODE with the alternates ZIP and postal, ZIP, PHONE with the
\* alternate TEL
MetadataColumns ==
    {[name |-> <<"Z","I","P","_","C","O","D","E">>,
      alternate_columns |-> <<<<"Z","I","P">>, <<"p","o","s","t","a","l">>>>],
     [name |-> <<"Z","I","P">>, alternate_columns |-> <<>>],
     [name |-> <<"P","H","O","N","E">>, alternate_columns |-> <<<<"T","E","L">>>>]}

\* the metadata documents: the columns in any order
MetadataDocs == {d \in SeqsUpTo(MetadataColumns, MaxColumns) : IsInjective(d)}

\* source headers: " zip ", "Postal", "Phone_No", "TEL", "ZIP_CODE", "FAX"
SourceHeaders ==
    {<<" ","z","i","p"," ">>, <<"P","o","s","t","a","l">>,
     <<"P","h","o","n","e","_","N","o">>, <<"T","E","L">>,
     <<"Z","I","P","_","C","O","D","E">>, <<"F","A","X">>}

ApplyAutoMap ==
    /\ fn = "none"
    /\ \E source_col \in SourceHeaders, columns_metadata \in MetadataDocs :
          /\ fn' = "auto_map_fields"
          /\ fn_in' = [source_col |-> source_col, columns_metadata |-> columns_metadata]
          /\ fn_out' = auto_map_fields(source_col, columns_metadata)
    /\ UNCHANGED <<matching, config_api>>

ApplyBuildColumnMapping ==
    /\ fn = "none"
    /\ \E source_col \in SourceHeaders, columns_metadata \in MetadataDocs :
          /\ fn' = "build_column_mapping"
          /\ fn_in' = [source_col |-> source_col, columns_metadata |-> columns_metadata]
          /\ fn_out' = build_column_mapping(source_col, columns_metadata)
    /\ UNCHANGED <<matching, config_api>>

NextMapping == ApplyAutoMap \/ ApplyBuildColumnMapping

SpecMapping == InitStore /\ [][NextMapping]_vars

\* ------------------------------------------------------------------------
\* Two run_matching jobs on one store file: each loads the mapping at its
\* start (matching_engine.py line 212), changes it in memory and saves it
\* at its end (line 312); nothing in the code keeps the jobs apart
\* ------------------------------------------------------------------------

MaxJobRows == 2

\* a job that ran alone and has left the store file with one binding
PriorJob ==
    /\ \A j \in JobIds : jobs[j].pc = "idle"
    /\ store_file.state = "absent"
    /\ \E record \in StoreRecords :
       \E new_key \in {generate_dedup_key(issued)} :
       \E got \in {get_or_create_dedup_key(record, load_dedup_mappings(store_file), new_key)} :
           /\ store_file' = [state |-> "complete", data |-> SavedDocument(got.mappings)]
           /\ issued' = issued \cup {new_key}
    /\ UNCHANGED <<job, mappings, store_api>>

\* line 212; serial: no other job is between its load and the end of its save
JobStart(j) ==
    /\ jobs[j].pc = "idle"
    /\ jobs' = [jobs EXCEPT ![j] =
                  [pc |-> "rows", mappings |-> load_dedup_mappings(store_file), rows |-> 0,
                   serial |-> \A k \in JobIds \ {j} : jobs[k].pc \in {"idle", "done"}]]
    /\ UNCHANGED <<one_job, mappings, store_file, issued, store_api>>

\* lines 278 and 292: a row gets its key from the job's own mapping
JobGetOrCreate(j) ==
    /\ jobs[j].pc = "rows"
    /\ jobs[j].rows < MaxJobRows
    /\ \E record \in StoreRecords :
       \E new_key \in {generate_dedup_key(issued)} :
       \E got \in {get_or_create_dedup_key(record, jobs[j].mappings, new_key)} :
           /\ jobs' = [jobs EXCEPT ![j].mappings = got.mappings, ![j].rows = @ + 1]
           /\ issued' = IF got.is_new THEN issued \cup {new_key} ELSE issued
    /\ UNCHANGED <<one_job, mappings, store_file, store_api>>

\* line 312, dedup.py lines 66-72: the file is opened for writing
JobSaveBegin(j) ==
    /\ jobs[j].pc = "rows"
    /\ jobs' = [jobs EXCEPT ![j].pc = "writing",
                            ![j].mappings = SavedDocument(jobs[j].mappings)]
    /\ store_file' = [state |-> "torn", data |-> DefaultMappings]
    /\ UNCHANGED <<one_job, mappings, issued, store_api>>

\* dedup.py lines 73-74: the job's document is in the file
JobSaveEnd(j) ==
    /\ jobs[j].pc = "writing"
    /\ jobs' = [jobs EXCEPT ![j].pc = "done"]
    /\ store_file' = [state |-> "complete", data |-> jobs[j].mappings]
    /\ UNCHANGED <<one_job, mappings, issued, store_api>>

NextParallel ==
    \/ PriorJob
    \/ \E j \in JobIds : JobStart(j)
    \/ \E j \in JobIds : JobGetOrCreate(j)
    \/ \E j \in JobIds : JobSaveBegin(j)
    \/ \E j \in JobIds : JobSaveEnd(j)

SpecParallel == InitStore /\ [][NextParallel]_vars

\* ------------------------------------------------------------------------
\* similarity.py normalizers and quality_scorer.py calculate_phone_quality
\* applied once to strings drawn from small sets
\* ------------------------------------------------------------------------

MaxPieces == 3

\* what names, addresses are put together from: words that the normalizers
\* remove or abbreviate, in mixed case, punctuation and spaces
Pieces ==
    {<<"T","h","e">>, <<"I","N","C">>, <<"C","o",".">>, <<"A","c","m","e">>,
     <<"S","t","r","e","e","t">>, <<"S","t">>, <<"n","o","r","t","h">>,
     <<" ">>, <<"-">>}

RECURSIVE Concat(_)
Concat(pieces) == IF pieces = <<>> THEN <<>> ELSE Head(pieces) \o Concat(Tail(pieces))

\* phone numbers: ten digits with or without punctuation, nine digits, and
\* each after one or two leading 1
PhoneInputs ==
    {pre \o body :
        pre \in {<<>>, <<"1">>, <<"1","1">>, <<"+","1"," ">>},
        body \in {PhoneParens, <<"2","1","2","5","5","5","0","1","0","0">>,
                  <<"1","2","5","5","5","0","1","0","0">>,
                  <<"1","1","2","5","5","5","0","1","0","0">>}}
    \cup {<<>>, <<"n",".","a",".">>}

EmailInputs ==
    {<<>>, <<" ","A","n","n","@","X",".","C","O","M"," ">>, <<"a","@","b",".","c","o">>}

NormalizerInputs(name) ==
    CASE name = "normalize_phone" -> PhoneInputs
      [] name = "normalize_email" -> EmailInputs
      [] OTHER -> {Concat(p) : p \in SeqsUpTo(Pieces, MaxPieces)}

Normalize(name, s) ==
    CASE name = "normalize_text"         -> normalize_text(s)
      [] name = "normalize_company_name" -> normalize_company_name(s)
      [] name = "normalize_address"      -> normalize_address(s)
      [] name = "normalize_phone"        -> normalize_phone(s)
      [] name = "normalize_email"        -> normalize_email(s)

ApplyNormalizer ==
    /\ fn = "none"
    /\ \E name \in {"normalize_text", "normalize_company_name", "normalize_address",
                    "normalize_phone", "normalize_email"} :
       \E s \in NormalizerInputs(name) :
          /\ fn' = name
          /\ fn_in' = s
          /\ fn_out' = Normalize(name, s)
    /\ UNCHANGED <<matching, config_api>>

\* quality_scorer.py lines 96-97: the toll-free codes a new database gets
DefaultTollFreeCodes ==
    {<<"8","0","0">>, <<"8","8","8">>, <<"8","7","7">>, <<"8","6","6">>,
     <<"8","5","5">>, <<"8","4","4">>, <<"8","3","3">>}

\* the toll_free_codes table as load_quality_metadata_from_db may find it:
\* the defaults, or a table an administrator has cut down
TollFreeTables == {DefaultTollFreeCodes, {<<"8","8","8">>}}

ZeroPhoneQuality ==
    [has_10_digits |-> 0, not_all_same |-> 0, valid_area_code |-> 0,
     valid_exchange |-> 0, valid_line_number |-> 0, not_toll_free |-> 0,
     not_main_line |-> 0, has_extension |-> 0, high_quality |-> 0, total |-> 0]

\* 5 for every number without an extension, main line or not
has_extension_any(extension, is_main_line) ==
    IF extension # <<>> /\ Strip(extension) # <<>> THEN 11 ELSE 5

\* lines 293-297
has_extension(extension, is_main_line) ==
    IF extension # <<>> /\ Strip(extension) # <<>> THEN 11
    ELSE IF ~is_main_line THEN 5
    ELSE 0

\* lines 299-303
high_quality(digits) ==
    LET sequential == \/ Contains(<<"0","1","2","3","4","5","6","7","8","9">>, digits)
                      \/ Contains(<<"9","8","7","6","5","4","3","2","1","0">>, digits)
        repeating  == \E k \in 1..7 : \A n \in k..(k + 3) : digits[n] = digits[k]
    IN  IF ~sequential /\ ~repeating THEN 11 ELSE 0

\* calculate_phone_quality, with TOLL_FREE_CODES as loaded from the database
calculate_phone_quality(phone, extension, toll_free_codes) ==
    IF phone = <<>> THEN ZeroPhoneQuality
    ELSE
    LET all == DigitsOnly(phone)
        digits == IF Len(all) = 11 /\ all[1] = "1" THEN Tail(all) ELSE all
    IN  IF Len(digits) # 10 THEN ZeroPhoneQuality
        ELSE
        LET area_code    == SubSeq(digits, 1, 3)
            exchange     == SubSeq(digits, 4, 6)
            line_number  == SubSeq(digits, 7, 10)
            is_main_line == Suffix(line_number, 3) = <<"0","0","0">>
            result ==
              [has_10_digits     |-> 11,
               not_all_same      |-> IF Cardinality(Range(digits)) > 1 THEN 11 ELSE 0,
               valid_area_code   |-> IF area_code[1] \notin {"0", "1"} THEN 11 ELSE 0,
               valid_exchange    |-> IF exchange[1] \notin {"0", "1"} THEN 11 ELSE 0,
               valid_line_number |-> IF line_number # <<"0","0","0","0">> THEN 11 ELSE 0,
               not_toll_free     |-> IF area_code \notin toll_free_codes THEN 12 ELSE 0,
               not_main_line     |-> IF ~is_main_line THEN 11 ELSE 0,
               has_extension     |-> has_extension(extension, is_main_line),
               high_quality      |-> high_quality(digits),
               total             |-> 0]
        IN  [result EXCEPT !.total =
                result.has_10_digits + result.not_all_same + result.valid_area_code
                + result.valid_exchange + result.valid_line_number + result.not_toll_free
                + result.not_main_line + result.has_extension + result.high_quality]

\* phone numbers: area code, exchange and line number of every kind the
\* criteria tell apart, written with dashes after nothing, 1 or 11
QualityPhones ==
    {pre \o area \o <<"-">> \o exchange \o <<"-">> \o line :
        pre \in {<<>>, <<"1","-">>, <<"1","1">>},
        area \in {<<"8","0","0">>, <<"8","8","8">>, <<"2","1","2">>, <<"0","1","2">>},
        exchange \in {<<"5","5","5">>, <<"1","5","5">>},
        line \in {<<"0","1","9","9">>, <<"0","0","0","0">>, <<"2","0","0","0">>,
                  <<"5","5","5","5">>}}
    \cup {<<>>, <<"5","5","5","-","0","1","9","9">>,
          <<"0","1","2","3","4","5","6","7","8","9">>,
          <<"9","8","7","6","5","4","3","2","1","0">>,
          <<"2","2","2","2","2","2","2","2","2","2">>}

\* PHONE_EXTENSION: absent or empty, digits, a blank
QualityExtensions == {<<>>, <<"1","2">>, <<" ">>}

ApplyPhoneQuality ==
    /\ fn = "none"
    /\ \E phone \in QualityPhones, extension \in QualityExtensions,
          toll_free_codes \in TollFreeTables :
          /\ fn' = "calculate_phone_quality"
          /\ fn_in' = [phone |-> phone, extension |-> extension,
                       toll_free_codes |-> toll_free_codes]
          /\ fn_out' = calculate_phone_quality(phone, extension, toll_free_codes)
    /\ UNCHANGED <<matching, config_api>>

NextStrings == ApplyNormalizer \/ ApplyPhoneQuality

SpecStrings == InitStore /\ [][NextStrings]_vars

\* ------------------------------------------------------------------------
\* Properties of the pipeline
\* ------------------------------------------------------------------------

DedupKeyOf(row) == Get(row, "DEDUP_KEY")

\* the job has processed every row and has not started another
RowsDone == pc \in {"save", "output"}

\* C1: a row matched to a candidate by a rule is emitted with the same
\* DEDUP_KEY as the candidate it matched (in S1 both rows share one key).
C1_MatchedRowsShareKey ==
    RowsDone =>
        \A k \in DOMAIN records :
            matched_with[k] # 0 =>
                DedupKeyOf(records[k]) = DedupKeyOf(records[matched_with[k]])

\* job r ran without any error and its store was saved
CleanRun(r) ==
    /\ saved[r]
    /\ returned[r].errors = 0
    /\ Len(outputs[r]) = Len(input.rows)

\* C2: a second run on the same input against the store the first run saved
\* reports matched_existing = total_records and new_dedup_keys = 0.
C2_IdempotentStats ==
    \A r \in DOMAIN returned :
        (r > 1 /\ CleanRun(r - 1) /\ returned[r].errors = 0) =>
            /\ returned[r].matched_existing = returned[r].total_records
            /\ returned[r].new_dedup_keys = 0

\* C3: a second run on the same input against the store the first run saved
\* emits every row with the DEDUP_KEY it was emitted with in the first run.
C3_KeysStableAcrossRuns ==
    \A r \in DOMAIN outputs :
        (r > 1 /\ CleanRun(r - 1) /\ CleanRun(r)) =>
            \A k \in DOMAIN outputs[r] :
                DedupKeyOf(outputs[r][k]) = DedupKeyOf(outputs[r - 1][k])

\* evaluating the rules on the ordered pair (a, b) of input rows finds no match
NoRuleSatisfied(a, b) ==
    find_best_match(standardize_record(input.rows[a]),
                    <<standardize_record(input.rows[b])>>, rules).status = "none"

\* C4: against an empty store, when no two records satisfy any enabled rule,
\* all emitted DEDUP_KEYs are distinct and new_dedup_keys = total_records.
C4_UnmatchedRowsGetDistinctKeys ==
    ( /\ RowsDone
      /\ run = 0
      /\ \A a, b \in DOMAIN records : a # b => NoRuleSatisfied(a, b) ) =>
        /\ \A a, b \in DOMAIN records :
              a # b => DedupKeyOf(records[a]) # DedupKeyOf(records[b])
        /\ stats.new_dedup_keys = stats.total_records

\* every data_hash -> key binding of m1 is a binding of m2
BindingsKept(m1, m2) ==
    \A h \in DOMAIN m1.data_hash_to_key :
        /\ h \in DOMAIN m2.data_hash_to_key
        /\ m2.data_hash_to_key[h] = m1.data_hash_to_key[h]

\* C6: across runs that share one store (each loading what the run before
\* saved) data_hash_to_key never shrinks and no bound data_hash is rebound.
C6_MonotoneStore ==
    [][ (pc # "idle" \/ run = 0 \/ saved[run]) =>
            /\ BindingsKept(mappings, mappings')
            /\ Cardinality(DOMAIN mappings'.data_hash_to_key)
                  >= Cardinality(DOMAIN mappings.data_hash_to_key) ]_vars

SameBlock(a, b) == create_blocking_key(records[a]) = create_blocking_key(records[b])

\* C5: a row is matched only to a row with the same composite blocking key,
\* and only rows of its own block are passed to rule evaluation against it.
C5_BlockingSoundness ==
    \A k \in DOMAIN records :
        /\ \A n \in DOMAIN candidates_of[k] : SameBlock(k, candidates_of[k][n])
        /\ matched_with[k] # 0 =>
              /\ SameBlock(k, matched_with[k])
              /\ InSeq(matched_with[k], candidates_of[k])

\* a row was matched by a rule while the file holds a row of another block
C5_Witness ==
    /\ RowsDone
    /\ \E k, j \in DOMAIN records :
          /\ matched_with[k] # 0
          /\ ~SameBlock(k, j)
          /\ candidates_of[j] = <<>>

\* ------------------------------------------------------------------------
\* Properties of the dedup store
\* ------------------------------------------------------------------------

\* the three indices of a mapping, without its metadata
Indices(m) == <<m.data_hash_to_key, m.key_to_data_hashes, m.key_to_identifiers>>

\* C7: a load that runs while a save is in progress, or after a save was
\* interrupted, returns the complete previous or the complete new mapping.
C7_AtomicSave ==
    loaded.done => Indices(loaded.data) \in {Indices(loaded.old), Indices(loaded.new)}

NoDuplicates(s) == \A a, b \in DOMAIN s : a # b => s[a] # s[b]

\* C8: repeating a get_or_create or link call with the same arguments leaves
\* the three indices as the first call left them, get_or_create returns the
\* same key, and no member list holds an entry twice.
C8_Idempotent ==
    /\ last_call.op = "get_or_create" =>
          \E again \in {get_or_create_dedup_key(last_call.record, last_call.after,
                                                generate_dedup_key(issued))} :
              /\ again.mappings = last_call.after
              /\ again.dedup_key = last_call.dedup_key
    /\ last_call.op = "link" =>
          link_records(last_call.dedup_key, last_call.record, last_call.after)
              = last_call.after
    /\ \A k \in DOMAIN mappings.key_to_data_hashes :
          NoDuplicates(mappings.key_to_data_hashes[k])
    /\ \A k \in DOMAIN mappings.key_to_identifiers :
          NoDuplicates(mappings.key_to_identifiers[k])

\* a link call was made for a record and key that were already linked
C8_Witness ==
    /\ last_call.op = "link"
    /\ last_call.dedup_key \in DOMAIN last_call.before.key_to_data_hashes
    /\ InSeq(generate_data_hash(last_call.record),
             last_call.before.key_to_data_hashes[last_call.dedup_key])
    /\ InSeq(Identifier(last_call.record),
             last_call.before.key_to_identifiers[last_call.dedup_key])

\* C9: get_or_create on a bound data_hash returns the bound key, is_new
\* false, and changes nothing; on an unbound one it returns is_new true with
\* a key that no index held, and adds hash->key, key->[hash] and
\* key->[SOURCE_TYPE:SOURCE_ID] and nothing else.
C9_GetOrCreateFrame ==
    last_call.op = "get_or_create" =>
        LET before    == last_call.before
            after     == last_call.after
            data_hash == generate_data_hash(last_call.record)
            key       == last_call.dedup_key
        IN  IF data_hash \in DOMAIN before.data_hash_to_key
            THEN /\ ~last_call.is_new
                 /\ key = before.data_hash_to_key[data_hash]
                 /\ after = before
            ELSE /\ last_call.is_new
                 /\ key \notin KeysOf(before)
                 /\ DOMAIN after.data_hash_to_key
                       = DOMAIN before.data_hash_to_key \cup {data_hash}
                 /\ BindingsKept(before, after)
                 /\ after.data_hash_to_key[data_hash] = key
                 /\ \A idx \in {"key_to_data_hashes", "key_to_identifiers"} :
                       /\ DOMAIN after[idx] = DOMAIN before[idx] \cup {key}
                       /\ \A k \in DOMAIN before[idx] : after[idx][k] = before[idx][k]
                 /\ after.key_to_data_hashes[key] = <<data_hash>>
                 /\ after.key_to_identifiers[key] = <<Identifier(last_call.record)>>
                 /\ after.total_runs = before.total_runs

\* get_or_create made a new key in a mapping that already held keys
C9_Witness ==
    /\ last_call.op = "get_or_create"
    /\ last_call.is_new
    /\ KeysOf(last_call.before) # {}

\* C10: every data_hash is bound to one key and is in the member list of
\* that key and of no other key.
C10_IndexConsistency ==
    \A h \in DOMAIN mappings.data_hash_to_key :
        \A k \in DOMAIN mappings.key_to_data_hashes :
            InSeq(h, mappings.key_to_data_hashes[k])
                <=> mappings.data_hash_to_key[h] = k

\* ------------------------------------------------------------------------
\* Properties of the rule engine (specification SpecRules)
\* ------------------------------------------------------------------------

\* the rule is enabled and evaluate_rule reports a match for the pair
Matches(record, candidate, rule) ==
    rule.enabled /\ evaluate_rule(record, candidate, rule).status = "match"

\* pair p = <<rule, candidate>> is tried before pair q: lower priority
\* number first, then the rule declared first, then the earlier candidate
TriedBefore(doc, p, q) ==
    \/ doc[p[1]].priority < doc[q[1]].priority
    \/ doc[p[1]].priority = doc[q[1]].priority /\ p[1] < q[1]
    \/ p[1] = q[1] /\ p[2] < q[2]

\* C11: find_best_match returns the first matching (rule, candidate) pair in
\* the order: enabled rules by ascending priority, ties by declaration
\* order, candidates in the order given; the result carries that rule's
\* match_reason; when no pair matches the result is empty.
C11_FirstMatchInPriorityOrder ==
    fn = "find_best_match" =>
        LET record     == fn_in.record
            candidates == fn_in.candidates
            doc        == fn_in.rules
            matching_pairs ==
                {p \in (DOMAIN doc) \X (DOMAIN candidates) :
                    Matches(record, candidates[p[2]], doc[p[1]])}
        IN  IF matching_pairs = {} THEN fn_out = NoMatch
            ELSE \E p \in matching_pairs :
                    /\ \A q \in matching_pairs \ {p} : TriedBefore(doc, p, q)
                    /\ fn_out.status = "match"
                    /\ fn_out.candidate = p[2]
                    /\ fn_out.match_reason = doc[p[1]].match_reason
                    /\ fn_out.scores = evaluate_rule(record, candidates[p[2]], doc[p[1]]).scores

\* the second candidate is returned under the priority-1 rule although the
\* first candidate matches a priority-2 rule that is declared first
C11_Witness ==
    /\ fn = "find_best_match"
    /\ fn_out.status = "match"
    /\ fn_out.candidate = 2
    /\ fn_out.match_reason = "EXACT"
    /\ Len(fn_in.rules) >= 2
    /\ fn_in.rules[1].priority = 2
    /\ Matches(fn_in.record, fn_in.candidates[1], fn_in.rules[1])

\* every condition of the rule holds for the pair
EveryConditionHolds(record1, record2, rule) ==
    \A k \in DOMAIN rule.conditions :
        evaluate_condition(record1, record2, rule.conditions[k]).value

\* C12 as stated: an enabled rule with a list of conditions of any length
\* matches a pair exactly when every condition holds for the pair, and a
\* rule that is not enabled never matches.
C12_MatchIffEveryCondition ==
    fn = "evaluate_rule" =>
        ((fn_out.status = "match") <=>
            (fn_in.rule.enabled /\ EveryConditionHolds(fn_in.record1, fn_in.record2, fn_in.rule)))

\* C12, amended: an enabled rule with at least one condition matches a pair
\* exactly when every condition holds for the pair; a rule that is not
\* enabled, and a rule without conditions, never matches.
C12_MatchIffEveryConditionOfNonEmpty ==
    fn = "evaluate_rule" =>
        ((fn_out.status = "match") <=>
            (/\ fn_in.rule.enabled
             /\ fn_in.rule.conditions # <<>>
             /\ EveryConditionHolds(fn_in.record1, fn_in.record2, fn_in.rule)))

\* an enabled rule of two conditions that both hold matches
C12_Witness ==
    /\ fn = "evaluate_rule"
    /\ fn_in.rule.enabled
    /\ Len(fn_in.rule.conditions) = 2
    /\ fn_in.rule.conditions[1] # fn_in.rule.conditions[2]
    /\ fn_in.record1 # fn_in.record2
    /\ fn_out.status = "match"

\* the score of the comparator selected for the field: the company
\* comparator for the two name columns, the address and the phone
\* comparator for theirs, the generic similarity for the ZIP code
SelectedScore(field, v1, v2) ==
    CASE field \in {"COMPANY_NAME", "CONTACT_NAME"} -> compare_company_names(v1, v2)
      [] field = "ADDRESS_LINE_1"                   -> compare_addresses(v1, v2)
      [] field = "PHONE_NUMBER"                     -> compare_phones(v1, v2)
      [] field = "ZIP_CODE"                         -> calculate_similarity(v1, v2)

\* C13: with blank=true the condition holds iff both values are empty;
\* otherwise, if either value is empty, iff blank_allowed=true; otherwise,
\* with s the score of the comparator selected for the field, iff s >= T
\* when include=true and iff s < T when include=false.  A value is empty
\* when nothing is left of it after trimming.
C13_ConditionSemantics ==
    fn = "evaluate_condition" =>
        LET condition == fn_in.condition
            v1 == Strip(Get(fn_in.record1, condition.field))
            v2 == Strip(Get(fn_in.record2, condition.field))
            T  == condition.percentage * 1000
            s  == SelectedScore(condition.field, v1, v2)
        IN  /\ ~fn_out.raised
            /\ fn_out.value <=>
                  IF condition.blank THEN v1 = <<>> /\ v2 = <<>>
                  ELSE IF v1 = <<>> \/ v2 = <<>> THEN condition.blank_allowed
                  ELSE IF condition.include THEN s >= T ELSE s < T

\* a condition on CONTACT_NAME with include=true and T = 100 holds for two
\* different names that the company comparator scores 100
C13_Witness ==
    /\ fn = "evaluate_condition"
    /\ fn_in.condition.field = "CONTACT_NAME"
    /\ fn_in.condition.include
    /\ ~fn_in.condition.blank
    /\ fn_in.condition.percentage = 100
    /\ Get(fn_in.record1, "CONTACT_NAME") # Get(fn_in.record2, "CONTACT_NAME")
    /\ Strip(Get(fn_in.record1, "CONTACT_NAME")) # <<>>
    /\ Strip(Get(fn_in.record2, "CONTACT_NAME")) # <<>>
    /\ fn_out.value

\* ------------------------------------------------------------------------
\* Properties of the job: failures, determinism, ordering (specification Spec)
\* ------------------------------------------------------------------------

\* C14: a failure while normalizing, quality-scoring or comparing a single
\* row never aborts run_matching: every call on a readable file returns its
\* stats, every row of the file is emitted, a failing row with
\* MATCH_REASON "ERROR" and an ERROR message, and errors counts the failing
\* rows.
C14_RowFailureNeverAborts ==
    /\ \A r \in DOMAIN returned : ~returned[r].raised
    /\ RowsDone =>
          /\ Len(results) = Len(input.rows)
          /\ stats.errors = Cardinality({n \in DOMAIN records :
                                            records[n]["MATCH_REASON"] = "ERROR"})
          /\ \A n \in DOMAIN records :
                records[n]["MATCH_REASON"] = "ERROR" => "ERROR" \in DOMAIN records[n]

\* C15: a job whose store was not persisted is never reported as a clean
\* success: when save_dedup_mappings failed, what the caller gets back
\* carries an error indication (an exception, an error count or an error
\* message), also when the output CSV was written.
C15_SaveFailureSurfaced ==
    \A r \in DOMAIN returned :
        ~saved[r] =>
            \/ returned[r].raised
            \/ returned[r].errors > 0
            \/ returned[r].error_message
            \/ returned[r].write_error

\* C16: two executions of run_matching on the same input rows, the same
\* prior store and the same rules emit identical output rows (there is no
\* MATCH_TIMESTAMP column in the model), the DEDUP_KEY of rows whose key is
\* new in the run included.  The second job runs on the store of the first
\* when the first could not save: both load the empty store.
C16_Determinism ==
    (Len(outputs) >= 2 /\ ~saved[1]) =>
        outputs[2] = outputs[1]

\* the columns of a row that the job does not write
SourceColumns(row) ==
    <<row["SOURCE_TYPE"], row["SOURCE_ID"], row["COMPANY_NAME"], row["ADDRESS_LINE_1"],
      row["ZIP_CODE"], row["PHONE_NUMBER"]>>

\* where the row emitted at position a of the first output is in the second
PositionIn(out, row) == CHOOSE n \in DOMAIN out : SourceColumns(out[n]) = SourceColumns(row)

\* C17: for two orderings of the same rows, processed against the same prior
\* store with the same rules, two records are emitted with the same
\* DEDUP_KEY as each other under one ordering iff they are under the other.
\* (Files whose rows differ in the columns the job does not write; both
\* outputs written; the first job's store not saved, so both jobs load the
\* same store.)
C17_GroupingIndependentOfOrder ==
    ( /\ Len(outputs) >= 2
      /\ ~saved[1]
      /\ Len(outputs[1]) = Len(input.rows)
      /\ Len(outputs[2]) = Len(input.rows)
      /\ \A a, b \in DOMAIN input.rows :
            a # b => SourceColumns(input.rows[a]) # SourceColumns(input.rows[b]) ) =>
        \A a, b \in DOMAIN outputs[1] :
            (DedupKeyOf(outputs[1][a]) = DedupKeyOf(outputs[1][b]))
                <=> (DedupKeyOf(outputs[2][PositionIn(outputs[2], outputs[1][a])])
                        = DedupKeyOf(outputs[2][PositionIn(outputs[2], outputs[1][b])]))

\* C18: scenario S1: the two rows RowA and RowB, from different sources, in
\* one block and satisfying the single enabled rule, processed against an
\* empty store with a writable output, return total_records = 2,
\* matched_existing = 1, new_dedup_keys = 1 and errors = 0.
C18_S1Stats ==
    ( /\ Len(returned) >= 1
      /\ input.readable
      /\ input.rows \in {<<RowA, RowB>>, <<RowB, RowA>>}
      /\ rules_file = [state |-> "complete", data |-> <<RuleS1>>]
      /\ output_writable
      /\ quality_metadata_ok ) =>
        returned[1] = [ZeroStats EXCEPT !.total_records = 2, !.matched_existing = 1,
                                        !.new_dedup_keys = 1]

\* the first job on RowA, RowB under the rule of S1 has returned: RowA was
\* matched to RowB by the rule
C18_Witness ==
    /\ Len(returned) >= 1
    /\ run = 1
    /\ input.rows = <<RowA, RowB>>
    /\ rules = <<RuleS1>>
    /\ output_writable
    /\ matched_with = <<2, 0>>
    /\ Identifier(input.rows[1]) # Identifier(input.rows[2])
    /\ create_blocking_key(input.rows[1]) = create_blocking_key(input.rows[2])
    /\ returned[1].matched_existing = 1
    /\ returned[1].new_dedup_keys = 1

\* ------------------------------------------------------------------------
\* Properties of the config files (specification SpecConfig)
\* ------------------------------------------------------------------------

\* C19: config save is an atomic replace: a load of the document
\* (ConfigManager.load_config, or load_rules) that runs while a save of it
\* is under way returns the complete previous document or the complete new
\* one, never an empty or partial document.
C19_AtomicConfigSave ==
    (cfg_loaded.done /\ cfg_loaded.during) =>
        cfg_loaded.data \in {cfg_loaded.old, cfg_loaded.new}

\* ------------------------------------------------------------------------
\* Properties of the header mapping (specification SpecMapping)
\* ------------------------------------------------------------------------

\* the score of a header (uppercased, trimmed) against one column: 100 for
\* the canonical name, 95 for an alternate, 70 for a substring either way
HeaderScore(source_upper, column) ==
    IF source_upper = Upper(column.name) THEN 100
    ELSE IF \E a \in Range(column.alternate_columns) : source_upper = Upper(a) THEN 95
    ELSE IF \/ Contains(Upper(column.name), source_upper)
            \/ Contains(source_upper, Upper(column.name)) THEN 70
    ELSE 0

\* C20: for each source header, auto_map and the mapping used by standardize
\* select a column whose score is the maximum over all columns of the
\* metadata, and map the header iff that maximum is >= 70, whatever the
\* order of the columns in the metadata.
C20_MappingKeepsBest ==
    fn \in {"auto_map_fields", "build_column_mapping"} =>
        LET source_upper == Strip(Upper(fn_in.source_col))
            columns      == Range(fn_in.columns_metadata)
            best         == IF columns = {} THEN 0
                            ELSE CHOOSE s \in {HeaderScore(source_upper, c) : c \in columns} :
                                    \A c \in columns : HeaderScore(source_upper, c) <= s
        IN  /\ fn_out.mapped <=> best >= 70
            /\ fn_out.mapped =>
                  \E c \in columns : /\ c.name = fn_out.column
                                     /\ HeaderScore(source_upper, c) = best

\* a row all of whose values are empty after trimming
IsBlankRow(row) ==
    /\ \A f \in {"SOURCE_TYPE", "SOURCE_ID", "COMPANY_NAME", "ADDRESS_LINE_1",
                 "ZIP_CODE", "PHONE_NUMBER"} : Strip(row[f]) = <<>>
    /\ row["DEDUP_KEY"] = <<>>

\* C21: input rows whose values are all empty after trimming are skipped:
\* they are not counted in total_records, get no DEDUP_KEY, are never
\* offered as candidates and do not appear in the output.
C21_BlankRowsSkipped ==
    RowsDone =>
        /\ stats.total_records =
              Cardinality({n \in DOMAIN input.rows : ~IsBlankRow(input.rows[n])})
        /\ \A n \in DOMAIN records :
              IsBlankRow(input.rows[n]) =>
                  /\ DedupKeyOf(records[n]) = <<>>
                  /\ \A k \in DOMAIN candidates_of : ~InSeq(n, candidates_of[k])
                  /\ ~InSeq(n, results)

\* ------------------------------------------------------------------------
\* Properties of the normalizers and of the phone quality score
\* (specification SpecStrings)
\* ------------------------------------------------------------------------

\* C22: every normalizer is idempotent: normalize_X(normalize_X(s)) =
\* normalize_X(s) for X in text, company_name, address, phone, email; for
\* phone also on strings of 11 and 12 digits that begin with 1.
C22_NormalizersIdempotent ==
    fn \in {"normalize_text", "normalize_company_name", "normalize_address",
            "normalize_phone", "normalize_email"} =>
        Normalize(fn, fn_out) = fn_out

\* a number of eleven digits that begins with 11 was cut to ten digits,
\* which begin with 1
C22_Witness ==
    /\ fn = "normalize_phone"
    /\ Len(DigitsOnly(fn_in)) = 11
    /\ Len(fn_out) = 10
    /\ fn_out[1] = "1"

\* ------------------------------------------------------------------------
\* Properties of the candidates of a row (specification Spec)
\* ------------------------------------------------------------------------

\* C23: when run_matching processes row i, its candidates are exactly the
\* rows j # i with the blocking key of row i that are not yet marked
\* processed, in ascending input order; rows are processed in input order;
\* a row processed without error is marked processed and is not offered as
\* a candidate again, so a row is never matched to a row that was matched
\* to it.
C23_CandidatesAreUnprocessedBlockRows ==
    [][ (pc = "rows" /\ i' = i + 1) =>
          /\ results' = [n \in 1..i |-> n]
          /\ candidates_of'[i] =
                SelectSeq([n \in DOMAIN records |-> n],
                          LAMBDA j : j # i /\ SameBlock(i, j) /\ j \notin processed_in_block)
          /\ stats'.errors = stats.errors => processed_in_block' = processed_in_block \cup {i}
          /\ \A j \in processed_in_block' :
                /\ j < i' 
                /\ \A k \in (j + 1)..i : ~InSeq(j, candidates_of'[k])
          /\ \A j \in DOMAIN records :
                matched_with'[i] = j => matched_with'[j] # i ]_vars

\* three rows of one block are done: the second was offered the third only,
\* the third none
C23_Witness ==
    /\ RowsDone
    /\ Len(records) = 3
    /\ SameBlock(1, 2) /\ SameBlock(2, 3)
    /\ processed_in_block = {1, 2, 3}
    /\ candidates_of = <<(<<2, 3>>), (<<3>>), (<<>>)>>

\* C24: a candidate's DEDUP_KEY is reused only when the candidate is an
\* already-processed row of the job, so a reused key is one the job
\* assigned through the store and never a value carried in by an input row.
C24_ReuseOnlyFromProcessedRows ==
    [][ \A j \in DOMAIN records :
          ( /\ pc = "rows"
            /\ i' = i + 1
            /\ matched_with'[i] = j
            /\ DedupKeyOf(records[j]) # <<>> ) =>
              /\ j \in processed_in_block
              /\ DedupKeyOf(records[j]) \in issued
              /\ DedupKeyOf(records[j]) # RawKey ]_vars

\* the digits calculate_phone_quality scores: the leading 1 of eleven
\* digits dropped
ScoredDigits(phone) ==
    LET all == DigitsOnly(phone)
    IN  IF Len(all) = 11 /\ all[1] = "1" THEN Tail(all) ELSE all

\* the claims of C25 that do not depend on what an extension is
PhoneQualityTotals ==
    LET q      == fn_out
        digits == ScoredDigits(fn_in.phone)
    IN  /\ q.total = q.has_10_digits + q.not_all_same + q.valid_area_code
                     + q.valid_exchange + q.valid_line_number + q.not_toll_free
                     + q.not_main_line + q.has_extension + q.high_quality
        /\ q.total \in 0..100
        /\ Len(digits) # 10 => q.total = 0
        /\ (Len(digits) = 10 /\ SubSeq(digits, 1, 3) \in fn_in.toll_free_codes) =>
              q.total <= 88

\* has_extension of a ten-digit number, given whether it has an extension
ExtensionScore(has) ==
    LET digits    == ScoredDigits(fn_in.phone)
        main_line == SubSeq(digits, 8, 10) = <<"0","0","0">>
    IN  Len(digits) = 10 =>
           fn_out.has_extension = IF has THEN 11 ELSE IF ~main_line THEN 5 ELSE 0

\* C25: the total of calculate_phone_quality is the sum of its nine criteria
\* and lies in 0..100; it is 0 unless the number has exactly 10 digits after
\* the leading 1 of eleven digits is dropped; a number with a toll-free area
\* code scores at most 88; has_extension is 11 with a non-empty extension,
\* 5 with no extension on a non-main line, and 0 otherwise.
C25_PhoneQuality ==
    fn = "calculate_phone_quality" =>
        /\ PhoneQualityTotals
        /\ ExtensionScore(fn_in.extension # <<>>)

\* C25 as amended: the same, with has_extension 11 for an extension that is
\* not blank (not empty and not only whitespace).
C25_PhoneQualityNonBlankExtension ==
    fn = "calculate_phone_quality" =>
        /\ PhoneQualityTotals
        /\ ExtensionScore(Strip(fn_in.extension) # <<>>)

\* 1-800-555-0199 with a blank extension was scored against the default
\* table: nothing for the area code, 5 for the extension
C25_Witness ==
    /\ fn = "calculate_phone_quality"
    /\ fn_in.phone = <<"1","-","8","0","0","-","5","5","5","-","0","1","9","9">>
    /\ fn_in.extension = <<" ">>
    /\ fn_in.toll_free_codes = DefaultTollFreeCodes
    /\ fn_out.not_toll_free = 0
    /\ fn_out.has_extension = 5
    /\ fn_out.total = 82

\* C26: when run_matching has processed its rows, new_dedup_keys is the
\* number of dedup keys the run added (keys of key_to_data_hashes at save
\* time that the store loaded at the start did not hold), and
\* matched_existing + new_dedup_keys is at most total_records.
C26_NewKeysCounted ==
    pc = "save" =>
        /\ stats.new_dedup_keys =
              Cardinality(DOMAIN mappings.key_to_data_hashes
                          \ DOMAIN load_dedup_mappings(store_file).key_to_data_hashes)
        /\ stats.matched_existing + stats.new_dedup_keys <= stats.total_records

\* identifier is one of the entries of the |-separated list ids
ListsIdentifier(ids, identifier) ==
    Contains(<<"|">> \o identifier \o <<"|">>, <<"|">> \o ids \o <<"|">>)

\* C27: every row emitted as matched has in MATCHED_RECORD_IDS its own
\* SOURCE_TYPE:SOURCE_ID identifier and the identifier of the candidate row
\* it was matched to.
C27_MatchedIdsHoldBothRows ==
    \A k \in DOMAIN records :
        (k \in DOMAIN matched_with /\ matched_with[k] # 0) =>
            /\ ListsIdentifier(records[k]["MATCHED_RECORD_IDS"], Identifier(records[k]))
            /\ ListsIdentifier(records[k]["MATCHED_RECORD_IDS"],
                               Identifier(records[matched_with[k]]))

\* ------------------------------------------------------------------------
\* Properties of the reported scores (specification SpecRules)
\* ------------------------------------------------------------------------

\* C28: for every condition of a rule whose two values are non-empty, the
\* score reported under <field>_score is that of the comparator which
\* decides the condition; hence on a match the reported score of every
\* include=true condition is >= its threshold and that of every
\* include=false condition is < its threshold.
C28_ReportedScoreDecides ==
    fn = "evaluate_rule" =>
        \A k \in DOMAIN fn_in.rule.conditions :
            LET condition == fn_in.rule.conditions[k]
                field == condition.field
                v1 == Strip(Get(fn_in.record1, field))
                v2 == Strip(Get(fn_in.record2, field))
                T  == condition.percentage * 1000
            IN  (v1 # <<>> /\ v2 # <<>>) =>
                  /\ ScoreColumn(field) \in DOMAIN fn_out.scores =>
                        fn_out.scores[ScoreColumn(field)] = SelectedScore(field, v1, v2)
                  /\ fn_out.status = "match" =>
                        /\ ScoreColumn(field) \in DOMAIN fn_out.scores
                        /\ IF condition.include
                           THEN fn_out.scores[ScoreColumn(field)] >= T
                           ELSE fn_out.scores[ScoreColumn(field)] < T

\* ------------------------------------------------------------------------
\* Properties of jobs that share the store file (specification SpecParallel)
\* ------------------------------------------------------------------------

\* the file holds every data_hash -> key binding of the mapping m
StoreHolds(m) ==
    /\ store_file.state = "complete"
    /\ \A h \in DOMAIN m.data_hash_to_key :
          /\ h \in DOMAIN store_file.data.data_hash_to_key
          /\ store_file.data.data_hash_to_key[h] = m.data_hash_to_key[h]

BothSaved == \A j \in JobIds : jobs[j].pc = "done"

LoadConfigReturns == cfg_loaded' # cfg_loaded /\ cfg_loaded'.by = "load_config"

\* a save_config has begun and failed in this step
SaveConfigFailed == cfg_pc = "idle" /\ cfg_pc' = "idle" /\ cfg_saves' = cfg_saves + 1

\* C30: config cache coherence: a document that load_config serves from its
\* cache (file mtime <= cached mtime) is the one most recently read from or
\* successfully saved to the file; the cache is never served once the
\* file's mtime exceeds the cached one; an absent file loads as the empty
\* document; a save_config that fails (as in a settings-section update that
\* edits the loaded document before saving) leaves what later load_config
\* calls return unchanged.
C30_ConfigCacheCoherence ==
    [][ /\ (LoadConfigReturns /\ cfg_loaded'.cached) =>
              /\ config_file.mtime <= cfg_cache.mtime
              /\ cfg_loaded'.data = cfg_complete
        /\ (LoadConfigReturns /\ config_file.state = "absent") =>
              cfg_loaded'.data = EmptyDocument
        /\ SaveConfigFailed =>
              load_config(config_file', cfg_cache').data
                 = load_config(config_file, cfg_cache).data ]_vars

====
